---- MODULE Spec2Model ----
(***************************************************************************)
(* A model of the CV scoring engine: the score cache and its fingerprint   *)
(* (modules/ai_scoring.py), the single-model and the voting scoring paths, *)
(* the weighted aggregate (modules/data_handling.py), the batch tracker    *)
(* and the batch loop (modules/batch_processing.py) and the handler that   *)
(* starts a batch run (app.py).                                            *)
(*                                                                         *)
(* Conventions.                                                            *)
(*  - A Python str that takes part in a fingerprint is a Text: a sequence  *)
(*    of runs [c |-> character, n |-> repetitions], canonical (n >= 1, no  *)
(*    two neighbouring runs of the same character), so that equality of    *)
(*    Texts is equality of the strings and the slices [:1000] and [:8000]  *)
(*    are computed with the program's own constants.                       *)
(*  - An oracle reply is a short str, held as a plain sequence of          *)
(*    characters.                                                          *)
(*  - A score is a fixed-point integer counting hundredths (85.5 is 8550,  *)
(*    the boolean answer 1 is 100): the decimal the float was read from;   *)
(*    the replies of the model carry at most two fractional digits.  The   *)
(*    aggregate, whose result depends on the roundings of the float        *)
(*    arithmetic, is computed on binary64 values.                          *)
(*  - hashlib.md5 is taken to be collision free: a fingerprint is the      *)
(*    string that is hashed.                                               *)
(***************************************************************************)
EXTENDS Integers, Sequences, FiniteSets, TLC

VARIABLES
    score_cache,          \* st.session_state.score_cache: fingerprint -> score
    requirements,         \* st.session_state.requirements
    uploaded_files,       \* the content of the upload widget
    in_progress,          \* st.session_state.processing['in_progress']
    current_results,      \* st.session_state.processing['current_results']
    processed_files,      \* st.session_state.processing['processed_files']
    tracker,              \* st.session_state.processing['tracker']
    session_results,      \* st.session_state.all_results (NoResults: key absent)
    filter_state,         \* st.session_state.filter_state
    filters_applied,      \* st.session_state.filters_applied
    filtered_results,     \* st.session_state.filtered_results (NoResults: key absent)
    audited,              \* observation: the source_file of the entries the audit
                          \* of the latest run added to st.session_state.audit_logs
    run,                  \* the frame of the batch run in progress (pc, locals)
    runs_started,         \* number of "Analyze CVs" clicks so far
    handed,               \* observation: the documents handed to process_single_file
                          \* in the latest run, in order
    last,                 \* observation: the last call of a scoring function
    returned,             \* observation: fingerprint -> value its first call returned
    fn                    \* harness of the pure functions: [name, args, result]

vars == <<score_cache, requirements, uploaded_files, in_progress, current_results,
          processed_files, tracker, session_results, run, runs_started, handed,
          last, returned, fn, filter_state, filters_applied, filtered_results,
          audited>>

FilterVars == <<filter_state, filters_applied, filtered_results>>

-----------------------------------------------------------------------------
(* Python str as Text *)

Run(c, n) == [c |-> c, n |-> n]

\* s + t on canonical Texts
Cat(s, t) ==
    IF s = <<>> THEN t
    ELSE IF t = <<>> THEN s
    ELSE IF s[Len(s)].c = t[1].c
         THEN SubSeq(s, 1, Len(s) - 1)
              \o <<Run(t[1].c, s[Len(s)].n + t[1].n)>>
              \o SubSeq(t, 2, Len(t))
         ELSE s \o t

RECURSIVE Chars(_)
\* the Text of a string given character by character
Chars(cs) == IF cs = <<>> THEN <<>> ELSE Cat(<<Run(Head(cs), 1)>>, Chars(Tail(cs)))

RECURSIVE TextLen(_)
\* len(s)
TextLen(s) == IF s = <<>> THEN 0 ELSE Head(s).n + TextLen(Tail(s))

RECURSIVE Slice(_, _)
\* s[:k]
Slice(s, k) ==
    IF k <= 0 \/ s = <<>> THEN <<>>
    ELSE IF Head(s).n <= k
         THEN <<Head(s)>> \o Slice(Tail(s), k - Head(s).n)
         ELSE <<Run(Head(s).c, k)>>

Colon == Chars(<<":">>)

\* the strings the fingerprint is built from
TextBoolean == Chars(<<"b", "o", "o", "l", "e", "a", "n">>)

TextScore == Chars(<<"s", "c", "o", "r", "e">>)

TextLow == Chars(<<"L", "o", "w">>)

TextMedium == Chars(<<"M", "e", "d", "i", "u", "m">>)

TextHigh == Chars(<<"H", "i", "g", "h">>)

TextGpt4o == Chars(<<"g", "p", "t", "-", "4", "o">>)

TextGpt4oMini == Chars(<<"g", "p", "t", "-", "4", "o", "-", "m", "i", "n", "i">>)

TextGpt4oDated ==
    Chars(<<"g", "p", "t", "-", "4", "o", "-", "2", "0", "2", "4", "-",
            "1", "1", "-", "2", "0">>)

TextVoting == Chars(<<"v", "o", "t", "i", "n", "g">>)

\* str() of a requirement's type and weight and of the model names
TypeText(type) == IF type = "boolean" THEN TextBoolean ELSE TextScore

WeightText(weight) ==
    CASE weight = "Low" -> TextLow
      [] weight = "Medium" -> TextMedium
      [] OTHER -> TextHigh

ModelText(model) ==
    CASE model = "gpt-4o" -> TextGpt4o
      [] model = "gpt-4o-mini" -> TextGpt4oMini
      [] model = "gpt-4o-2024-11-20" -> TextGpt4oDated
      [] OTHER -> TextVoting

-----------------------------------------------------------------------------
(* Python float as fixed point *)

Scale == 100

MaxScore == 100

FallbackScore == 50

KeyPrefixLen == 1000

PromptPrefixLen == 8000

Digits == {"0", "1", "2", "3", "4", "5", "6", "7", "8", "9"}

DigitVal(c) ==
    CASE c = "0" -> 0 [] c = "1" -> 1 [] c = "2" -> 2 [] c = "3" -> 3
      [] c = "4" -> 4 [] c = "5" -> 5 [] c = "6" -> 6 [] c = "7" -> 7
      [] c = "8" -> 8 [] OTHER -> 9

Whitespace == {" ", "\n", "\t"}

RECURSIVE LStrip(_)
LStrip(s) == IF s # <<>> /\ Head(s) \in Whitespace THEN LStrip(Tail(s)) ELSE s

RECURSIVE RStrip(_)
RStrip(s) ==
    IF s # <<>> /\ s[Len(s)] \in Whitespace THEN RStrip(SubSeq(s, 1, Len(s) - 1)) ELSE s

\* str.strip()
strip(s) == RStrip(LStrip(s))

RECURSIVE DigitsValue(_, _)
\* int() of a run of digits, most significant first, on top of acc
DigitsValue(ds, acc) ==
    IF ds = <<>> THEN acc ELSE DigitsValue(Tail(ds), 10 * acc + DigitVal(Head(ds)))

RECURSIVE LeadingDigits(_)
\* the longest prefix of s made of digits
LeadingDigits(s) ==
    IF s # <<>> /\ Head(s) \in Digits THEN <<Head(s)>> \o LeadingDigits(Tail(s)) ELSE <<>>

\* the fraction .d1d2 in hundredths
FractionValue(ds) ==
    (IF Len(ds) >= 1 THEN 10 * DigitVal(ds[1]) ELSE 0)
    + (IF Len(ds) >= 2 THEN DigitVal(ds[2]) ELSE 0)

Lower(c) ==
    CASE c = "I" -> "i" [] c = "N" -> "n" [] c = "F" -> "f" [] c = "A" -> "a"
      [] c = "T" -> "t" [] c = "Y" -> "y" [] c = "P" -> "p" [] c = "D" -> "d"
      [] OTHER -> c

LowerAll(s) == [i \in 1..Len(s) |-> Lower(s[i])]

\* float(s): [kind |-> "num", val] | [kind |-> "inf", neg] | [kind |-> "nan"]
\*           | [kind |-> "ValueError"].  Signs, digits, one point, inf, infinity
\* and nan are read; exponents and digit separators are not in the replies of
\* the model.
float(s0) ==
    LET s    == strip(s0)
        neg  == s # <<>> /\ Head(s) = "-"
        body == IF s # <<>> /\ Head(s) \in {"+", "-"} THEN Tail(s) ELSE s
        low  == LowerAll(body)
        ip   == LeadingDigits(body)
        rest == SubSeq(body, Len(ip) + 1, Len(body))
        fp   == IF rest # <<>> /\ Head(rest) = "." THEN LeadingDigits(Tail(rest)) ELSE <<>>
        used == Len(ip) + (IF rest # <<>> /\ Head(rest) = "." THEN 1 + Len(fp) ELSE 0)
        mag  == Scale * DigitsValue(ip, 0) + FractionValue(fp)
    IN  IF low \in {<<"i", "n", "f">>, <<"i", "n", "f", "i", "n", "i", "t", "y">>}
        THEN [kind |-> "inf", neg |-> neg]
        ELSE IF low = <<"n", "a", "n">>
        THEN [kind |-> "nan"]
        ELSE IF Len(ip) + Len(fp) >= 1 /\ used = Len(body)
        THEN [kind |-> "num", val |-> IF neg THEN 0 - mag ELSE mag]
        ELSE [kind |-> "ValueError"]

\* round(x) of a finite float: to the nearest integer, halves to the even one
round(v) ==
    LET q == v \div Scale
        r == v % Scale
    IN  IF 2 * r < Scale THEN q
        ELSE IF 2 * r > Scale THEN q + 1
        ELSE IF q % 2 = 0 THEN q ELSE q + 1

Min(a, b) == IF b < a THEN b ELSE a
Max(a, b) == IF b > a THEN b ELSE a

RECURSIVE FirstDigitRun(_)
\* re.search(r'\d+', s): the first run of digits of s, <<>> when it has none
FirstDigitRun(s) ==
    IF s = <<>> THEN <<>>
    ELSE IF Head(s) \in Digits THEN LeadingDigits(s)
    ELSE FirstDigitRun(Tail(s))

-----------------------------------------------------------------------------
(* modules/ai_scoring.py *)

Models == <<"gpt-4o", "gpt-4o-mini", "gpt-4o-2024-11-20">>

DefaultModel == "gpt-4o-mini"

\* dict[key] = value
Put(d, key, value) ==
    [k \in DOMAIN d \cup {key} |-> IF k = key THEN value ELSE d[k]]

\* f"{model}:{requirement['text']}:{requirement['type']}:{requirement['weight']}:{cv_text[:1000]}"
get_cache_key(requirement, cv_text, model) ==
    Cat(ModelText(model),
    Cat(Colon,
    Cat(requirement.text,
    Cat(Colon,
    Cat(TypeText(requirement.type),
    Cat(Colon,
    Cat(WeightText(requirement.weight),
    Cat(Colon, Slice(cv_text, KeyPrefixLen)))))))))

\* the value a path emits when it cannot use the oracle's answer
fallback_score(type) == IF type = "boolean" THEN 0 ELSE FallbackScore * Scale

\* min(1, max(0, round(score))) for boolean, min(100, max(0, score)) for score.
\* round() raises ValueError on nan and OverflowError on an infinity; max(0, nan)
\* is 0 because nan > 0 is false.
clamp_score(type, f) ==
    IF type = "boolean"
    THEN CASE f.kind = "nan" -> [exc |-> "ValueError", score |-> 0]
           [] f.kind = "inf" -> [exc |-> "OverflowError", score |-> 0]
           [] OTHER -> [exc |-> "none",
                        score |-> Scale * Min(1, Max(0, round(f.val)))]
    ELSE CASE f.kind = "nan" -> [exc |-> "none", score |-> 0]
           [] f.kind = "inf" ->
                [exc |-> "none", score |-> IF f.neg THEN 0 ELSE MaxScore * Scale]
           [] OTHER -> [exc |-> "none",
                        score |-> Min(MaxScore * Scale, Max(0, f.val))]

\* get_openai_score asking the model without a look at the cache
get_openai_score_unshared(cache, requirement, cv_text, out) ==
    LET cache_key == get_cache_key(requirement, cv_text, DefaultModel)
        asked     == [cache |-> cache, ret |-> 0, hit |-> FALSE,
                      called |-> <<DefaultModel>>, results |-> <<>>,
                      key |-> cache_key,
                      prompt_cv |-> Slice(cv_text, PromptPrefixLen)]
    IN  IF out.kind # "reply"
        THEN asked
        ELSE LET f == float(strip(out.content))
             IN  IF f.kind = "ValueError"
                 THEN asked
                 ELSE LET c == clamp_score(requirement.type, f)
                      IN  IF c.exc # "none"
                          THEN asked
                          ELSE [asked EXCEPT
                                   !.cache = Put(cache, cache_key, c.score),
                                   !.ret = c.score]

\* One call of get_openai_score on the cache `cache`, the oracle answering `out`
\* ([kind |-> "reply", content] or [kind |-> "error"]) if it is asked.  The result:
\* the cache afterwards, the value returned, the models invoked, the per-model
\* values in voting (results) and the document text sent in the prompt.
get_openai_score(cache, requirement, cv_text, out) ==
    LET cache_key == get_cache_key(requirement, cv_text, DefaultModel)
        asked     == [cache |-> cache, ret |-> 0, hit |-> FALSE,
                      called |-> <<DefaultModel>>, results |-> <<>>,
                      key |-> cache_key,
                      prompt_cv |-> Slice(cv_text, PromptPrefixLen)]
    IN  IF cache_key \in DOMAIN cache
        THEN [asked EXCEPT !.ret = cache[cache_key], !.hit = TRUE,
                           !.called = <<>>, !.prompt_cv = <<>>]
        ELSE IF out.kind = "error"
        THEN asked                                   \* except Exception: return 0
        ELSE LET f == float(strip(out.content))
             IN  IF f.kind = "ValueError"
                 THEN asked                          \* except ValueError: return 0
                 ELSE LET c == clamp_score(requirement.type, f)
                      IN  IF c.exc # "none"
                          THEN asked                 \* raised by round(): return 0
                          ELSE [asked EXCEPT
                                   !.cache = Put(cache, cache_key, c.score),
                                   !.ret = c.score]

\* results.count(x)
Count(results, x) == Cardinality({i \in 1..Len(results) : results[i] = x})

\* final_score with an even split resolved to 1
final_score_ties(type, results) ==
    IF type = "boolean"
    THEN LET ones  == Count(results, 1 * Scale)
             zeros == Count(results, 0)
         IN  IF ones >= zeros THEN 1 * Scale ELSE 0
    ELSE LET sorted == SortSeq(results, LAMBDA a, b : a < b)
             n      == Len(sorted)
         IN  IF n % 2 = 0
             THEN (sorted[n \div 2] + sorted[n \div 2 + 1]) \div 2
             ELSE sorted[n \div 2 + 1]

\* final_score taking the middle of the votes in the order they came
final_score_unsorted(type, results) ==
    IF type = "boolean"
    THEN LET ones  == Count(results, 1 * Scale)
             zeros == Count(results, 0)
         IN  IF ones > zeros THEN 1 * Scale ELSE 0
    ELSE LET sorted == results
             n      == Len(sorted)
         IN  IF n % 2 = 0
             THEN (sorted[n \div 2] + sorted[n \div 2 + 1]) \div 2
             ELSE sorted[n \div 2 + 1]

\* the reduction of the collected votes (lines 162-175)
final_score(type, results) ==
    IF type = "boolean"
    THEN LET ones  == Count(results, 1 * Scale)
             zeros == Count(results, 0)
         IN  IF ones > zeros THEN 1 * Scale ELSE 0
    ELSE LET sorted == SortSeq(results, LAMBDA a, b : a < b)
             n      == Len(sorted)
         IN  IF n % 2 = 0
             THEN (sorted[n \div 2] + sorted[n \div 2 + 1]) \div 2
             ELSE sorted[n \div 2 + 1]

\* the vote of one model on its reply (lines 137-155)
model_vote(type, out) ==
    IF out.kind = "error"
    THEN [cached |-> FALSE, score |-> fallback_score(type)]
    ELSE LET number_match == FirstDigitRun(strip(out.content))
         IN  IF number_match # <<>>
             THEN [cached |-> TRUE,
                   score |-> clamp_score(type,
                                 [kind |-> "num",
                                  val |-> Scale * DigitsValue(number_match, 0)]).score]
             ELSE [cached |-> FALSE, score |-> fallback_score(type)]

RECURSIVE collect_votes(_, _, _, _, _)
\* the loop over the models from the i-th on; acc = [cache, results, called]
collect_votes(acc, requirement, cv_text, outs, i) ==
    IF i > Len(Models) THEN acc
    ELSE LET model           == Models[i]
             model_cache_key == get_cache_key(requirement, cv_text, model)
             v               == model_vote(requirement.type, outs[i])
             next ==
                IF model_cache_key \in DOMAIN acc.cache
                THEN [acc EXCEPT !.results = Append(@, acc.cache[model_cache_key])]
                ELSE [cache   |-> IF v.cached
                                  THEN Put(acc.cache, model_cache_key, v.score)
                                  ELSE acc.cache,
                      results |-> Append(acc.results, v.score),
                      called  |-> Append(acc.called, model)]
         IN  collect_votes(next, requirement, cv_text, outs, i + 1)

\* get_openai_score_with_voting leaving the combined fingerprint unwritten
get_openai_score_with_voting_unstored(cache, requirement, cv_text, outs) ==
    LET voting_cache_key == get_cache_key(requirement, cv_text, "voting")
    IN  IF voting_cache_key \in DOMAIN cache
        THEN [cache |-> cache, ret |-> cache[voting_cache_key], hit |-> TRUE,
              called |-> <<>>, results |-> <<>>, key |-> voting_cache_key,
              prompt_cv |-> <<>>]
        ELSE LET acc == collect_votes([cache |-> cache, results |-> <<>>,
                                       called |-> <<>>],
                                      requirement, cv_text, outs, 1)
                 final == final_score(requirement.type, acc.results)
             IN  [cache |-> acc.cache,
                  ret |-> final, hit |-> FALSE, called |-> acc.called,
                  results |-> acc.results, key |-> voting_cache_key,
                  prompt_cv |-> IF acc.called = <<>> THEN <<>>
                                ELSE Slice(cv_text, PromptPrefixLen)]

\* One call of get_openai_score_with_voting; outs[i] is the answer of Models[i]
\* if it is asked.
get_openai_score_with_voting(cache, requirement, cv_text, outs) ==
    LET voting_cache_key == get_cache_key(requirement, cv_text, "voting")
    IN  IF voting_cache_key \in DOMAIN cache
        THEN [cache |-> cache, ret |-> cache[voting_cache_key], hit |-> TRUE,
              called |-> <<>>, results |-> <<>>, key |-> voting_cache_key,
              prompt_cv |-> <<>>]
        ELSE LET acc == collect_votes([cache |-> cache, results |-> <<>>,
                                       called |-> <<>>],
                                      requirement, cv_text, outs, 1)
                 final == final_score(requirement.type, acc.results)
             IN  [cache |-> Put(acc.cache, voting_cache_key, final),
                  ret |-> final, hit |-> FALSE, called |-> acc.called,
                  results |-> acc.results, key |-> voting_cache_key,
                  prompt_cv |-> IF acc.called = <<>> THEN <<>>
                                ELSE Slice(cv_text, PromptPrefixLen)]

-----------------------------------------------------------------------------
(* Inputs *)

Reply(cs) == [kind |-> "reply", content |-> cs]

OracleError == [kind |-> "error"]

NotAsked == [kind |-> "unused"]

\* what the oracle may do on one invocation: answer with some text, or raise
Replies ==
    { Reply(<<"1">>),
      Reply(<<"1", "5", "0">>),
      Reply(<<"-", "5">>),
      Reply(<<"0", ".", "6">>),
      Reply(<<" ", "8", "5", "\n">>),
      Reply(<<"S", "c", "o", "r", "e", ":", " ", "8", "5">>),
      Reply(<<"N", "/", "A">>),
      Reply(<<"i", "n", "f">>),
      Reply(<<"n", "a", "n">>) }

Outcomes == Replies \cup {OracleError}

HasDigits(out) == out.kind = "reply" /\ FirstDigitRun(out.content) # <<>>

NoDigitReplies == {out \in Replies : ~HasDigits(out)}

ReqSkill == [text |-> Chars(<<"P">>), weight |-> "High", type |-> "score"]

ReqDegree == [text |-> Chars(<<"D">>), weight |-> "Medium", type |-> "boolean"]

\* a requirement whose text happens to read like the tail of a fingerprint
ReqQuoted ==
    [text |-> Chars(<<"P", ":", "s", "c", "o", "r", "e", ":", "H", "i", "g", "h", ":", "Q">>),
     weight |-> "Low", type |-> "boolean"]

\* two documents that agree on their first 1000 characters and differ after
TextLongX == <<Run("a", 1000), Run("x", 1)>>

TextLongY == <<Run("a", 1000), Run("y", 8000)>>

TextZ == Chars(<<"Z">>)

TextQ == Chars(<<"Q", ":", "b", "o", "o", "l", "e", "a", "n", ":", "L", "o", "w", ":", "Z">>)

-----------------------------------------------------------------------------
(* Observation of the scoring calls *)

EmptyDict == <<>>

NoCall ==
    [fn |-> "none", requirement |-> ReqSkill, cv_text |-> <<>>, outs |-> <<>>,
     ret |-> 0, hit |-> FALSE, called |-> <<>>, results |-> <<>>, key |-> <<>>,
     prompt_cv |-> <<>>, again |-> FALSE, first |-> 0]

\* the record of a call with result r; outs are the oracle's answers, kept only
\* for the models the call invoked
Observed(name, requirement, cv_text, outs, r) ==
    [fn |-> name, requirement |-> requirement, cv_text |-> cv_text,
     outs |-> outs, ret |-> r.ret, hit |-> r.hit, called |-> r.called,
     results |-> r.results, key |-> r.key, prompt_cv |-> r.prompt_cv,
     again |-> r.key \in DOMAIN returned,
     first |-> IF r.key \in DOMAIN returned THEN returned[r.key] ELSE r.ret]

InSeq(x, s) == \E i \in 1..Len(s) : s[i] = x

Remember(r) ==
    IF r.key \in DOMAIN returned THEN returned ELSE Put(returned, r.key, r.ret)

-----------------------------------------------------------------------------
(* The scoring functions called on a session's cache: one requirement of the
   session and two documents with the same fingerprint, scored again and
   again in both modes under every behaviour of the oracle. *)

ScoringRequirements == {ReqSkill, ReqDegree}

ScoringTexts == {TextLongX, TextLongY}

NoTracker == [total_files |-> 0, total_requirements |-> 0, total_operations |-> 0,
              completed_operations |-> 0]

NoResults == [absent |-> TRUE]

Idle == [pc |-> "idle"]

NoFn == [name |-> "none"]

NoFilter == [min_score |-> 0, selected_requirements |-> <<>>,
             must_meet_all_boolean |-> FALSE]

SessionStart ==
    /\ score_cache = EmptyDict
    /\ in_progress = FALSE
    /\ current_results = EmptyDict
    /\ processed_files = EmptyDict
    /\ tracker = NoTracker
    /\ session_results = NoResults
    /\ run = Idle
    /\ runs_started = 0
    /\ handed = <<>>
    /\ last = NoCall
    /\ returned = EmptyDict
    /\ filter_state = NoFilter
    /\ filters_applied = FALSE
    /\ filtered_results = NoResults
    /\ audited = <<>>

InitScoring ==
    /\ SessionStart
    /\ fn = NoFn
    /\ \E r \in ScoringRequirements : requirements = <<r>>
    /\ uploaded_files = <<>>

\* the answers the oracle may give to a call: one outcome for each model whose
\* fingerprint is not cached (the only ones the call invokes)
SingleAnswers(cache, requirement, cv_text, outcomes) ==
    IF get_cache_key(requirement, cv_text, DefaultModel) \in DOMAIN cache
    THEN {NotAsked}
    ELSE outcomes

VotingAnswers(cache, requirement, cv_text, outcomes) ==
    LET asked == IF get_cache_key(requirement, cv_text, "voting") \in DOMAIN cache
                 THEN {}
                 ELSE {i \in 1..Len(Models) :
                         get_cache_key(requirement, cv_text, Models[i])
                             \notin DOMAIN cache}
    IN  {[i \in 1..Len(Models) |-> IF i \in asked THEN g[i] ELSE NotAsked] :
            g \in [asked -> outcomes]}

CallSingle ==
    \E cv_text \in ScoringTexts :
    \E out \in SingleAnswers(score_cache, requirements[1], cv_text, Outcomes) :
        LET r == get_openai_score(score_cache, requirements[1], cv_text, out)
        IN  /\ score_cache' = r.cache
            /\ last' = Observed("single", requirements[1], cv_text, <<out>>, r)
            /\ returned' = Remember(r)
            /\ UNCHANGED <<requirements, uploaded_files, in_progress, current_results,
                           processed_files, tracker, session_results, run,
                           runs_started, handed, fn>>
            /\ UNCHANGED FilterVars
            /\ UNCHANGED audited

CallVoting ==
    \E cv_text \in ScoringTexts :
    \E outs \in VotingAnswers(score_cache, requirements[1], cv_text, Outcomes) :
        LET r == get_openai_score_with_voting(score_cache, requirements[1], cv_text, outs)
        IN  /\ score_cache' = r.cache
            /\ last' = Observed("voting", requirements[1], cv_text, outs, r)
            /\ returned' = Remember(r)
            /\ UNCHANGED <<requirements, uploaded_files, in_progress, current_results,
                           processed_files, tracker, session_results, run,
                           runs_started, handed, fn>>
            /\ UNCHANGED FilterVars
            /\ UNCHANGED audited

NextScoring == CallSingle \/ CallVoting

SpecScoring == InitScoring /\ [][NextScoring]_vars

-----------------------------------------------------------------------------
(* modules/batch_processing.py and app.py: a session that analyses its upload *)

MaxRuns == 2

PdfSuffix == <<".", "p", "d", "f">>

\* a document: its name, the last four characters of the name, what reading it
\* does ("text": extraction yields text; "empty": process_pdf returns "", also
\* when PdfReader raises; "read_error": reading the archive member raises;
\* "open_error": opening the archive member raises) and the text it holds
Doc(name, suffix, kind, text) ==
    [name |-> name, suffix |-> suffix, kind |-> kind, text |-> text]

Pdf(doc) == [type |-> "application/pdf", name |-> doc.name, members |-> <<doc>>]

Zip(name, members) == [type |-> "application/zip", name |-> name, members |-> members]

DocQ == Doc("q.pdf", PdfSuffix, "text", TextQ)

DocZ == Doc("z.pdf", PdfSuffix, "text", TextZ)

DocZ2 == Doc("Z2.PDF", <<".", "P", "D", "F">>, "text", TextZ)

DocScan == Doc("scan.pdf", PdfSuffix, "empty", <<>>)

DocTorn == Doc("torn.pdf", PdfSuffix, "read_error", <<>>)

DocLocked == Doc("locked.pdf", PdfSuffix, "open_error", <<>>)

DocNotes == Doc("notes.txt", <<".", "t", "x", "t">>, "text", TextZ)

UploadSets ==
    { <<Pdf(DocQ), Pdf(DocScan), Pdf(DocZ)>>,
      <<Zip("cvs.zip", <<DocTorn, DocNotes, DocZ, DocZ2>>)>>,
      <<Zip("cvs.zip", <<DocZ, DocLocked>>), Pdf(DocQ)>>,
      <<Pdf(DocScan), Zip("cvs.zip", <<DocTorn>>)>> }

RequirementSets == { <<ReqDegree>>, <<ReqSkill, ReqQuoted>> }

BatchOutcomes ==
    { Reply(<<" ", "8", "5", "\n">>), Reply(<<"i", "n", "f">>), OracleError }

\* f.lower().endswith('.pdf')
IsPdfName(doc) == LowerAll(doc.suffix) = PdfSuffix

\* [f for f in z.namelist() if f.lower().endswith('.pdf')]
pdf_files(file) == SelectSeq(file.members, IsPdfName)

RECURSIVE count_total_files_exact(_)
\* count_total_files taking only the members whose name ends in ".pdf" as written
count_total_files_exact(files) ==
    LET IsExact(doc) == doc.suffix = PdfSuffix
    IN  IF files = <<>> THEN 0
        ELSE (CASE Head(files).type = "application/zip" ->
                      Len(SelectSeq(Head(files).members, IsExact))
                [] Head(files).type = "application/pdf" -> 1
                [] OTHER -> 0)
             + count_total_files_exact(Tail(files))

RECURSIVE count_total_files(_)
count_total_files(files) ==
    IF files = <<>> THEN 0
    ELSE (CASE Head(files).type = "application/zip" -> Len(pdf_files(Head(files)))
            [] Head(files).type = "application/pdf" -> 1
            [] OTHER -> 0)
         + count_total_files(Tail(files))

\* BatchProcessingTracker.__init__
BatchProcessingTracker(total_files, total_requirements) ==
    [total_files |-> total_files, total_requirements |-> total_requirements,
     total_operations |-> total_files * total_requirements,
     completed_operations |-> 0]

\* complete_requirement counting an operation twice
complete_requirement_twice(t) ==
    [t EXCEPT !.completed_operations = @ + 2]

\* BatchProcessingTracker.complete_requirement
complete_requirement(t) ==
    [t EXCEPT !.completed_operations = @ + 1]

\* what get_estimated_time_remaining tells: the marker "Calculating...", or
\* the text of a time, held as the division it is computed from,
\* remaining_operations / (completed_operations / elapsed)
Told(exc, text, remaining_operations, completed_operations, elapsed) ==
    [exc |-> exc, text |-> text, remaining_operations |-> remaining_operations,
     completed_operations |-> completed_operations, elapsed |-> elapsed]

\* BatchProcessingTracker.get_estimated_time_remaining, elapsed being
\* time.time() - self.start_time
get_estimated_time_remaining(t, elapsed) ==
    IF t.completed_operations = 0
    THEN Told("none", "Calculating...", 0, 0, 0)
    ELSE IF elapsed = 0
    THEN \* rate = self.completed_operations / elapsed
         Told("ZeroDivisionError", "", 0, 0, 0)
    ELSE LET remaining_operations == t.total_operations - t.completed_operations
         IN  IF elapsed > 0      \* rate > 0
             THEN Told("none", "timedelta", remaining_operations,
                       t.completed_operations, elapsed)
             ELSE Told("none", "Calculating...", 0, 0, 0)

\* ScoreRecord with the type in the place of the priority
ScoreRecord_misfiled(req, score) ==
    [requirement |-> req.text, score |-> score, priority |-> req.type,
     type |-> req.type]

ScoreRecord(req, score) ==
    [requirement |-> req.text, score |-> score, priority |-> req.weight,
     type |-> req.type]

Init ==
    /\ SessionStart
    /\ fn = NoFn
    /\ requirements \in RequirementSets
    /\ uploaded_files \in UploadSets

\* "Analyze CVs" is clicked: _process_cv_files up to the call of process_files
AnalyzeClick ==
    /\ run.pc = "idle"
    /\ requirements # <<>>
    /\ runs_started < MaxRuns
    /\ \E use_voting_system \in BOOLEAN, background_processing \in BOOLEAN :
          run' = [pc |-> "next", file_idx |-> 1, i |-> 1, is_zip |-> FALSE,
                  all_results |-> EmptyDict, file_counter_value |-> 0,
                  use_voting_system |-> use_voting_system,
                  background_processing |-> background_processing,
                  filename |-> "", cv_text |-> <<>>, scores |-> <<>>, j |-> 1]
    /\ in_progress' = TRUE
    /\ current_results' = EmptyDict
    /\ tracker' = BatchProcessingTracker(count_total_files(uploaded_files),
                                         Len(requirements))
    /\ runs_started' = runs_started + 1
    /\ handed' = <<>>
    /\ UNCHANGED <<score_cache, requirements, uploaded_files, processed_files,
                   session_results, last, returned, fn>>
    /\ UNCHANGED FilterVars
    /\ audited' = <<>>

\* the frame after the document in hand is done: the next member of the archive,
\* or the next uploaded file
Advance(frame) ==
    IF frame.is_zip
    THEN [frame EXCEPT !.pc = "next", !.i = @ + 1,
                       !.file_counter_value = @ + 1]
    ELSE [frame EXCEPT !.pc = "next", !.file_idx = @ + 1, !.i = 1,
                       !.file_counter_value = @ + 1]

\* process_single_file up to the requirement loop: the text is extracted
StartDocument(doc, is_zip) ==
    /\ handed' = Append(handed, doc.name)
    /\ IF doc.kind = "text" /\ doc.text # <<>>
       THEN /\ processed_files' = Put(processed_files, doc.name, doc.text)
            /\ run' = [run EXCEPT !.pc = "scoring", !.is_zip = is_zip,
                                  !.filename = doc.name, !.cv_text = doc.text,
                                  !.scores = <<>>, !.j = 1]
       ELSE \* "" from process_pdf, or the read raised: the result is None
            /\ processed_files' = processed_files
            /\ run' = Advance([run EXCEPT !.is_zip = is_zip])
    /\ UNCHANGED in_progress

\* the head of the loops of process_files
TakeNext ==
    /\ run.pc = "next"
    /\ IF run.file_idx > Len(uploaded_files)
       THEN \* process_files returns all_results
            /\ run' = [run EXCEPT !.pc = "returned"]
            /\ UNCHANGED <<processed_files, handed, in_progress>>
       ELSE LET file == uploaded_files[run.file_idx]
            IN  IF file.type = "application/zip"
                THEN IF run.i > Len(pdf_files(file))
                     THEN /\ run' = [run EXCEPT !.file_idx = @ + 1, !.i = 1]
                          /\ UNCHANGED <<processed_files, handed, in_progress>>
                     ELSE IF pdf_files(file)[run.i].kind = "open_error"
                     THEN \* z.open raises out of process_files; the handler of
                          \* _process_cv_files reports it and returns {}
                          /\ run' = Idle
                          /\ UNCHANGED <<processed_files, handed, in_progress>>
                     ELSE StartDocument(pdf_files(file)[run.i], TRUE)
                ELSE IF file.type = "application/pdf"
                THEN StartDocument(file.members[1], FALSE)
                ELSE /\ run' = [run EXCEPT !.file_idx = @ + 1, !.i = 1]
                     /\ UNCHANGED <<processed_files, handed, in_progress>>
    /\ UNCHANGED <<score_cache, requirements, uploaded_files, current_results,
                   tracker, session_results, runs_started, last, returned, fn>>
    /\ UNCHANGED FilterVars
    /\ UNCHANGED audited

\* one turn of the requirement loop of process_single_file
ScoreRequirement ==
    /\ run.pc = "scoring"
    /\ run.j <= Len(requirements)
    /\ LET req == requirements[run.j]
           Scored(name, outs, r) ==
               /\ score_cache' = r.cache
               /\ last' = Observed(name, req, run.cv_text, outs, r)
               /\ returned' = Remember(r)
               /\ run' = [run EXCEPT !.scores = Append(@, ScoreRecord(req, r.ret)),
                                     !.j = @ + 1]
               /\ tracker' = complete_requirement(tracker)
       IN  IF run.use_voting_system
           THEN \E outs \in VotingAnswers(score_cache, req, run.cv_text, BatchOutcomes) :
                   Scored("voting", outs,
                          get_openai_score_with_voting(score_cache, req, run.cv_text, outs))
           ELSE \E out \in SingleAnswers(score_cache, req, run.cv_text, BatchOutcomes) :
                   Scored("single", <<out>>,
                          get_openai_score(score_cache, req, run.cv_text, out))
    /\ UNCHANGED <<requirements, uploaded_files, in_progress, current_results,
                   processed_files, session_results, runs_started, handed, fn>>
    /\ UNCHANGED FilterVars
    /\ UNCHANGED audited

\* FinishDocument keeping the scores out of current_results until the end
FinishDocument_deferred ==
    /\ run.pc = "scoring"
    /\ run.j > Len(requirements)
    /\ current_results' = current_results
    /\ LET stored == IF run.scores # <<>>
                     THEN [run EXCEPT !.all_results = Put(@, run.filename, run.scores)]
                     ELSE run
           i == run.i - 1
       IN  IF /\ run.is_zip /\ run.scores # <<>>
              /\ run.background_processing /\ i % 2 = 0 /\ i > 0
           THEN run' = Idle
           ELSE run' = Advance(stored)
    /\ UNCHANGED <<score_cache, requirements, uploaded_files, in_progress,
                   processed_files, tracker, session_results, runs_started,
                   handed, last, returned, fn>>
    /\ UNCHANGED FilterVars
    /\ UNCHANGED audited

\* process_single_file returns the scores and process_files stores them
FinishDocument ==
    /\ run.pc = "scoring"
    /\ run.j > Len(requirements)
    /\ current_results' = IF run.scores # <<>>
                          THEN Put(current_results, run.filename, run.scores)
                          ELSE current_results
    /\ LET stored == IF run.scores # <<>>
                     THEN [run EXCEPT !.all_results = Put(@, run.filename, run.scores)]
                     ELSE run
           i == run.i - 1          \* the index enumerate() gives the member
       IN  IF /\ run.is_zip /\ run.scores # <<>>
              /\ run.background_processing /\ i % 2 = 0 /\ i > 0
           THEN \* st.rerun(): the script run is halted
                run' = Idle
           ELSE run' = Advance(stored)
    /\ UNCHANGED <<score_cache, requirements, uploaded_files, in_progress,
                   processed_files, tracker, session_results, runs_started,
                   handed, last, returned, fn>>
    /\ UNCHANGED FilterVars
    /\ UNCHANGED audited

RECURSIVE keys(_, _)
\* the keys of a result set in the order of their insertion, which is the
\* order in which their documents were handed over
keys(d, order) ==
    IF order = <<>> THEN <<>>
    ELSE LET rest == keys(d, Tail(order))
             IsOther(name) == name # Head(order)
         IN  IF Head(order) \in DOMAIN d
             THEN <<Head(order)>> \o SelectSeq(rest, IsOther)
             ELSE rest

\* _log_batch_processing_audit letting the error of a record call through
_log_batch_processing_audit_raising(logs, cv_names, fails_at) ==
    IF fails_at = 0
    THEN [exc |-> "none", audit_logs |-> logs \o cv_names]
    ELSE [exc |-> "Exception",
          audit_logs |-> logs \o SubSeq(cv_names, 1, fails_at - 1)]

\* _log_batch_processing_audit on the documents cv_names, the record call
\* raising for the fails_at-th of them (for none if 0): the entries before it
\* are stored, the error is reported on the page and the function returns
_log_batch_processing_audit(logs, cv_names, fails_at) ==
    IF fails_at = 0
    THEN [exc |-> "none", audit_logs |-> logs \o cv_names]
    ELSE [exc |-> "none",
          audit_logs |-> logs \o SubSeq(cv_names, 1, fails_at - 1)]

\* _process_cv_files after process_files: the audit (whose errors it swallows)
\* and the completion of the run; display_results then draws the filter
\* widgets at the values of filter_state, which it writes back unchanged
CompleteRun ==
    /\ run.pc = "returned"
    /\ \E fails_at \in 0..Len(keys(run.all_results, handed)) :
          LET audit == _log_batch_processing_audit(
                           audited, keys(run.all_results, handed), fails_at)
          IN  /\ audited' = audit.audit_logs
              /\ IF audit.exc = "none"
                 THEN /\ in_progress' = FALSE
                      /\ current_results' = run.all_results
                      /\ session_results' = run.all_results
                 ELSE \* the handler of _process_cv_files returns {}
                      UNCHANGED <<in_progress, current_results, session_results>>
              /\ run' = Idle
    /\ UNCHANGED <<score_cache, requirements, uploaded_files, processed_files,
                   tracker, runs_started, handed, last, returned, fn>>
    /\ UNCHANGED FilterVars

Next == AnalyzeClick \/ TakeNext \/ ScoreRequirement \/ FinishDocument \/ CompleteRun

Spec == Init /\ [][Next]_vars

-----------------------------------------------------------------------------
(* modules/data_handling.py *)

(* The arithmetic of the aggregate.  A score is a float object; the quotient
   it returns depends on the roundings of binary64, so the aggregate is
   computed on binary64 values: a natural number is a sequence of limbs of
   LimbBits bits, least significant first, without leading zero limbs, and a
   double (finite, not negative, as every score is) is [m, e] with the value
   m * 2^e, m odd or zero. *)

Mantissa == 53

LimbBits == 15

Base == 2 ^ LimbBits

\* without the zero limbs above the highest limb that is not zero
BNorm(a) ==
    LET nz == {i \in 1..Len(a) : a[i] # 0}
    IN  IF nz = {} THEN <<>>
        ELSE SubSeq(a, 1, CHOOSE i \in nz : \A j \in nz : j <= i)

\* a machine integer
BFromInt(n) == BNorm(<<n % Base, (n \div Base) % Base, n \div (Base * Base)>>)

RECURSIVE BAddC(_, _, _)
\* a + b + carry
BAddC(a, b, c) ==
    IF a = <<>> /\ b = <<>> THEN (IF c = 0 THEN <<>> ELSE <<c>>)
    ELSE LET x == IF a = <<>> THEN 0 ELSE Head(a)
             y == IF b = <<>> THEN 0 ELSE Head(b)
             t == x + y + c
         IN  <<t % Base>> \o BAddC(IF a = <<>> THEN <<>> ELSE Tail(a),
                                   IF b = <<>> THEN <<>> ELSE Tail(b), t \div Base)

BAdd(a, b) == BAddC(a, b, 0)

RECURSIVE BMulC(_, _, _)
\* a * n + carry for a machine integer n < Base
BMulC(a, n, c) ==
    IF a = <<>> THEN (IF c = 0 THEN <<>> ELSE <<c>>)
    ELSE LET t == Head(a) * n + c
         IN  <<t % Base>> \o BMulC(Tail(a), n, t \div Base)

BMulSmall(a, n) == BNorm(BMulC(a, n, 0))

\* a * 2^k
BShl(a, k) ==
    IF a = <<>> THEN <<>>
    ELSE [i \in 1..(k \div LimbBits) |-> 0] \o BMulSmall(a, 2 ^ (k % LimbBits))

\* a \div 2^k
BShr(a, k) ==
    LET whole == SubSeq(a, k \div LimbBits + 1, Len(a))
        r     == k % LimbBits
    IN  BNorm([i \in 1..Len(whole) |->
                  whole[i] \div (2 ^ r)
                  + (IF i < Len(whole) THEN (whole[i + 1] % (2 ^ r)) * 2 ^ (LimbBits - r)
                     ELSE 0)])

\* the i-th bit of a, the lowest being the first
BBit(a, i) ==
    (a[(i - 1) \div LimbBits + 1] \div (2 ^ ((i - 1) % LimbBits))) % 2

\* the number of bits of a
BLen(a) ==
    IF a = <<>> THEN 0
    ELSE LimbBits * (Len(a) - 1)
         + (CHOOSE k \in 1..LimbBits : 2 ^ (k - 1) <= a[Len(a)] /\ a[Len(a)] < 2 ^ k)

BLess(a, b) ==
    IF Len(a) # Len(b) THEN Len(a) < Len(b)
    ELSE LET D == {i \in 1..Len(a) : a[i] # b[i]}
         IN  D # {} /\ LET top == CHOOSE i \in D : \A j \in D : j <= i
                       IN  a[top] < b[top]

RECURSIVE BDivStep(_, _, _, _, _)
\* long division by the machine integer d < Base, from limb i down; r the
\* remainder and q the quotient limbs so far
BDivStep(a, i, d, r, q) ==
    IF i = 0 THEN [q |-> BNorm(q), r |-> r]
    ELSE LET t == r * Base + a[i]
         IN  BDivStep(a, i - 1, d, t % d, <<t \div d>> \o q)

BDivMod(a, d) == BDivStep(a, Len(a), d, 0, <<>>)

DoubleZero == [m |-> <<>>, e |-> 0]

\* the double of value m * 2^e, m of at most Mantissa bits after its low zeros
Canon(m, e) ==
    IF m = <<>> THEN DoubleZero
    ELSE LET low == CHOOSE i \in 1..BLen(m) :
                       BBit(m, i) = 1 /\ \A j \in 1..(i - 1) : BBit(m, j) = 0
         IN  [m |-> BShr(m, low - 1), e |-> e + low - 1]

\* round to nearest, ties to even: the double nearest to n * 2^e, or to a value
\* just above it when `sticky` (a remainder was cut off below n)
RoundNearest(n, e, sticky) ==
    IF BLen(n) <= Mantissa THEN Canon(n, e)
    ELSE LET drop  == BLen(n) - Mantissa
             kept  == BShr(n, drop)
             guard == BBit(n, drop)
             rest  == sticky \/ \E i \in 1..(drop - 1) : BBit(n, i) = 1
             up    == guard = 1 /\ (rest \/ BBit(kept, 1) = 1)
         IN  Canon(IF up THEN BAdd(kept, <<1>>) ELSE kept, e + drop)

\* float + float
FAdd(x, y) ==
    IF x.m = <<>> THEN y
    ELSE IF y.m = <<>> THEN x
    ELSE LET e == Min(x.e, y.e)
         IN  RoundNearest(BAdd(BShl(x.m, x.e - e), BShl(y.m, y.e - e)), e, FALSE)

\* float * int
FMulInt(x, n) == RoundNearest(BMulSmall(x.m, n), x.e, FALSE)

\* the bits the dividend is extended by, so that the quotient has more than
\* Mantissa + 1 bits for every divisor below Base
DivShift == 80

\* float / int
FDivInt(x, d) ==
    IF x.m = <<>> THEN DoubleZero
    ELSE LET dm == BDivMod(BShl(x.m, DivShift), d)
         IN  RoundNearest(dm.q, x.e - DivShift, dm.r # 0)

\* int -> float
FromInt(n) == Canon(BFromInt(n), 0)

\* the float object of a score: the double nearest to the decimal it was read
\* from (score counts hundredths)
FromScore(score) == FDivInt(FromInt(score), Scale)

\* score["score"]: the float of a record, which holds either a count of
\* hundredths or, in the field float, the double itself
ScoreFloat(score) ==
    IF "float" \in DOMAIN score THEN score.float ELSE FromScore(score.score)

\* float < float
FLess(x, y) ==
    LET e == Min(x.e, y.e)
    IN  BLess(BShl(x.m, x.e - e), BShl(y.m, y.e - e))

weight_map == [Low |-> 1, Medium |-> 2, High |-> 3]

RECURSIVE sum(_)
\* sum(list) of ints
sum(xs) == IF xs = <<>> THEN 0 ELSE Head(xs) + sum(Tail(xs))

RECURSIVE sum_from(_, _)
\* sum(list) of floats: the items are added to the running result from left
\* to right
sum_from(result, xs) ==
    IF xs = <<>> THEN result ELSE sum_from(FAdd(result, Head(xs)), Tail(xs))

\* calculate_weighted_score without the scaling of boolean values
calculate_weighted_score_unscaled(scores) ==
    LET value(score) == ScoreFloat(score)
        known == \A i \in 1..Len(scores) : scores[i].priority \in DOMAIN weight_map
        weights == [i \in 1..Len(scores) |-> weight_map[scores[i].priority]]
        weighted_scores ==
            [i \in 1..Len(scores) |->
                FMulInt(value(scores[i]), weight_map[scores[i].priority])]
    IN  IF ~known THEN [exc |-> "KeyError", value |-> DoubleZero]
        ELSE IF sum(weights) = 0 THEN [exc |-> "none", value |-> DoubleZero]
        ELSE [exc |-> "none",
              value |-> FDivInt(sum_from(DoubleZero, weighted_scores), sum(weights))]

\* calculate_weighted_score without the rule for a weight sum of 0
calculate_weighted_score_unguarded(scores) ==
    LET value(score) == IF score.type = "boolean"
                        THEN FMulInt(ScoreFloat(score), 100)
                        ELSE ScoreFloat(score)
        known == \A i \in 1..Len(scores) : scores[i].priority \in DOMAIN weight_map
        weights == [i \in 1..Len(scores) |-> weight_map[scores[i].priority]]
        weighted_scores ==
            [i \in 1..Len(scores) |->
                FMulInt(value(scores[i]), weight_map[scores[i].priority])]
    IN  IF ~known THEN [exc |-> "KeyError", value |-> DoubleZero]
        ELSE IF sum(weights) = 0
        THEN [exc |-> "ZeroDivisionError", value |-> DoubleZero]
        ELSE [exc |-> "none",
              value |-> FDivInt(sum_from(DoubleZero, weighted_scores), sum(weights))]

\* calculate_weighted_score giving a priority it does not know the weight 1
calculate_weighted_score_defaulted(scores) ==
    LET value(score) == IF score.type = "boolean"
                        THEN FMulInt(ScoreFloat(score), 100)
                        ELSE ScoreFloat(score)
        weight(score) == IF score.priority \in DOMAIN weight_map
                         THEN weight_map[score.priority]
                         ELSE 1
        weights == [i \in 1..Len(scores) |-> weight(scores[i])]
        weighted_scores ==
            [i \in 1..Len(scores) |-> FMulInt(value(scores[i]), weight(scores[i]))]
    IN  IF sum(weights) = 0 THEN [exc |-> "none", value |-> DoubleZero]
        ELSE [exc |-> "none",
              value |-> FDivInt(sum_from(DoubleZero, weighted_scores), sum(weights))]

\* The composite of a score list: the float the function returns (the int 0 of
\* an empty list is the double zero), or the KeyError that weight_map[...]
\* raises on a priority it does not hold.
calculate_weighted_score(scores) ==
    LET value(score) == IF score.type = "boolean"
                        THEN FMulInt(ScoreFloat(score), 100)
                        ELSE ScoreFloat(score)
        known == \A i \in 1..Len(scores) : scores[i].priority \in DOMAIN weight_map
        weights == [i \in 1..Len(scores) |-> weight_map[scores[i].priority]]
        weighted_scores ==
            [i \in 1..Len(scores) |->
                FMulInt(value(scores[i]), weight_map[scores[i].priority])]
    IN  IF ~known THEN [exc |-> "KeyError", value |-> DoubleZero]
        ELSE IF sum(weights) = 0 THEN [exc |-> "none", value |-> DoubleZero]
        ELSE [exc |-> "none",
              value |-> FDivInt(sum_from(DoubleZero, weighted_scores), sum(weights))]

-----------------------------------------------------------------------------
(* modules/filters.py *)

\* apply_filters dropping a composite equal to min_score
apply_filters_strict(all_results, filter_params) ==
    LET min_score             == filter_params.min_score
        selected_requirements == filter_params.selected_requirements
        must_meet_all_boolean == filter_params.must_meet_all_boolean
        IsBoolean(score)  == score.type = "boolean"
        IsSelected(score) == InSeq(score.requirement, selected_requirements)
        filtered_scores(cv_name) ==
            IF selected_requirements # <<>>
            THEN SelectSeq(all_results[cv_name], IsSelected)
            ELSE all_results[cv_name]
        passes(cv_name) ==
            LET scores         == all_results[cv_name]
                cv_score       == calculate_weighted_score(scores).value
                boolean_scores == SelectSeq(scores, IsBoolean)
            IN  /\ ~(~FLess(FromInt(min_score), cv_score))
                /\ must_meet_all_boolean
                      => \A i \in 1..Len(boolean_scores) :
                            boolean_scores[i].score = 1 * Scale
                /\ selected_requirements # <<>> => filtered_scores(cv_name) # <<>>
        kept == {cv_name \in DOMAIN all_results : passes(cv_name)}
    IN  IF \E cv_name \in DOMAIN all_results :
              calculate_weighted_score(all_results[cv_name]).exc # "none"
        THEN [exc |-> "KeyError", filtered_results |-> EmptyDict]
        ELSE [exc |-> "none",
              filtered_results |-> [cv_name \in kept |-> filtered_scores(cv_name)]]

\* apply_filters testing the boolean records of the projection only
apply_filters_projected_booleans(all_results, filter_params) ==
    LET min_score             == filter_params.min_score
        selected_requirements == filter_params.selected_requirements
        must_meet_all_boolean == filter_params.must_meet_all_boolean
        IsBoolean(score)  == score.type = "boolean"
        IsSelected(score) == InSeq(score.requirement, selected_requirements)
        filtered_scores(cv_name) ==
            IF selected_requirements # <<>>
            THEN SelectSeq(all_results[cv_name], IsSelected)
            ELSE all_results[cv_name]
        passes(cv_name) ==
            LET scores         == all_results[cv_name]
                cv_score       == calculate_weighted_score(scores).value
                boolean_scores == SelectSeq(filtered_scores(cv_name), IsBoolean)
            IN  /\ ~(FLess(cv_score, FromInt(min_score)))
                /\ must_meet_all_boolean
                      => \A i \in 1..Len(boolean_scores) :
                            boolean_scores[i].score = 1 * Scale
                /\ selected_requirements # <<>> => filtered_scores(cv_name) # <<>>
        kept == {cv_name \in DOMAIN all_results : passes(cv_name)}
    IN  IF \E cv_name \in DOMAIN all_results :
              calculate_weighted_score(all_results[cv_name]).exc # "none"
        THEN [exc |-> "KeyError", filtered_results |-> EmptyDict]
        ELSE [exc |-> "none",
              filtered_results |-> [cv_name \in kept |-> filtered_scores(cv_name)]]

\* apply_filters keeping the full sequence of a kept document
apply_filters_unprojected(all_results, filter_params) ==
    LET min_score             == filter_params.min_score
        selected_requirements == filter_params.selected_requirements
        must_meet_all_boolean == filter_params.must_meet_all_boolean
        IsBoolean(score)  == score.type = "boolean"
        IsSelected(score) == InSeq(score.requirement, selected_requirements)
        filtered_scores(cv_name) ==
            IF selected_requirements # <<>>
            THEN SelectSeq(all_results[cv_name], IsSelected)
            ELSE all_results[cv_name]
        passes(cv_name) ==
            LET scores         == all_results[cv_name]
                cv_score       == calculate_weighted_score(scores).value
                boolean_scores == SelectSeq(scores, IsBoolean)
            IN  /\ ~(FLess(cv_score, FromInt(min_score)))
                /\ must_meet_all_boolean
                      => \A i \in 1..Len(boolean_scores) :
                            boolean_scores[i].score = 1 * Scale
                /\ selected_requirements # <<>> => filtered_scores(cv_name) # <<>>
        kept == {cv_name \in DOMAIN all_results : passes(cv_name)}
    IN  IF \E cv_name \in DOMAIN all_results :
              calculate_weighted_score(all_results[cv_name]).exc # "none"
        THEN [exc |-> "KeyError", filtered_results |-> EmptyDict]
        ELSE [exc |-> "none",
              filtered_results |-> [cv_name \in kept |-> all_results[cv_name]]]

\* apply_filters: the results kept, or the KeyError of calculate_weighted_score
apply_filters(all_results, filter_params) ==
    LET min_score             == filter_params.min_score
        selected_requirements == filter_params.selected_requirements
        must_meet_all_boolean == filter_params.must_meet_all_boolean
        IsBoolean(score)  == score.type = "boolean"
        IsSelected(score) == InSeq(score.requirement, selected_requirements)
        filtered_scores(cv_name) ==
            IF selected_requirements # <<>>
            THEN SelectSeq(all_results[cv_name], IsSelected)
            ELSE all_results[cv_name]
        passes(cv_name) ==
            LET scores         == all_results[cv_name]
                cv_score       == calculate_weighted_score(scores).value
                boolean_scores == SelectSeq(scores, IsBoolean)
            IN  /\ ~(FLess(cv_score, FromInt(min_score)))
                /\ must_meet_all_boolean
                      => \A i \in 1..Len(boolean_scores) :
                            boolean_scores[i].score = 1 * Scale
                /\ selected_requirements # <<>> => filtered_scores(cv_name) # <<>>
        kept == {cv_name \in DOMAIN all_results : passes(cv_name)}
    IN  IF \E cv_name \in DOMAIN all_results :
              calculate_weighted_score(all_results[cv_name]).exc # "none"
        THEN [exc |-> "KeyError", filtered_results |-> EmptyDict]
        ELSE [exc |-> "none",
              filtered_results |-> [cv_name \in kept |-> filtered_scores(cv_name)]]

-----------------------------------------------------------------------------
(* The pure functions applied to inputs drawn from bounded sets *)

MaxVotes == 3

MaxRecords == 3

RECURSIVE ListsUpTo(_, _)
\* the sequences over S of length at most n
ListsUpTo(S, n) ==
    IF n = 0 THEN {<<>>}
    ELSE LET shorter == ListsUpTo(S, n - 1)
         IN  shorter \cup {Append(l, x) : l \in shorter, x \in S}

\* the values a model may vote: any score of the type, and, for a boolean
\* requirement, a value that is neither 0 nor 1
VoteValues(type) ==
    IF type = "boolean" THEN {0, 1 * Scale, 85 * Scale}
    ELSE {0, 40 * Scale, 50 * Scale, 60 * Scale, 80 * Scale, 8550}

PureStart ==
    /\ SessionStart
    /\ requirements = <<>>
    /\ uploaded_files = <<>>

SessionVars ==
    <<score_cache, requirements, uploaded_files, in_progress, current_results,
      processed_files, tracker, session_results, run, runs_started, handed,
      last, returned, filter_state, filters_applied, filtered_results,
      audited>>

InitVote ==
    /\ PureStart
    /\ \E type \in {"boolean", "score"} :
       \E results \in ListsUpTo(VoteValues(type), MaxVotes) \ {<<>>} :
          fn = [name |-> "votes", type |-> type, results |-> results, final |-> 0]

\* lines 162-175 of get_openai_score_with_voting on the collected votes
ReduceVotes ==
    /\ fn.name = "votes"
    /\ fn' = [fn EXCEPT !.name = "final_score",
                        !.final = final_score(fn.type, fn.results)]
    /\ UNCHANGED SessionVars

SpecVote == InitVote /\ [][ReduceVotes]_vars

\* records of both types and all three priorities; three score records of one
\* weight whose values are not binary fractions
RecordChoices ==
    { [requirement |-> ReqDegree.text, score |-> 1 * Scale, priority |-> "High",
       type |-> "boolean"],
      [requirement |-> ReqDegree.text, score |-> 0, priority |-> "Medium",
       type |-> "boolean"],
      [requirement |-> ReqDegree.text, score |-> 1 * Scale, priority |-> "Low",
       type |-> "boolean"],
      [requirement |-> ReqSkill.text, score |-> 50 * Scale, priority |-> "Low",
       type |-> "score"],
      [requirement |-> ReqSkill.text, score |-> 8550, priority |-> "Medium",
       type |-> "score"],
      [requirement |-> ReqSkill.text, score |-> 100 * Scale, priority |-> "High",
       type |-> "score"],
      [requirement |-> ReqSkill.text, score |-> 0, priority |-> "High",
       type |-> "score"],
      [requirement |-> ReqSkill.text, score |-> 10, priority |-> "Low",
       type |-> "score"],
      [requirement |-> ReqSkill.text, score |-> 20, priority |-> "Low",
       type |-> "score"],
      [requirement |-> ReqSkill.text, score |-> 30, priority |-> "Low",
       type |-> "score"] }

InitWeighted ==
    /\ PureStart
    /\ \E scores \in ListsUpTo(RecordChoices, MaxRecords) :
          fn = [name |-> "scores", scores |-> scores,
                composite |-> [exc |-> "none", value |-> DoubleZero]]

Aggregate ==
    /\ fn.name = "scores"
    /\ fn' = [fn EXCEPT !.name = "calculate_weighted_score",
                        !.composite = calculate_weighted_score(fn.scores)]
    /\ UNCHANGED SessionVars

SpecWeighted == InitWeighted /\ [][Aggregate]_vars

-----------------------------------------------------------------------------
(* apply_filters on the results of up to two documents *)

\* the records of one document
RecordLists ==
    { <<ScoreRecord(ReqDegree, 1 * Scale), ScoreRecord(ReqSkill, 85 * Scale)>>,
      <<ScoreRecord(ReqDegree, 0), ScoreRecord(ReqSkill, 100 * Scale)>>,
      <<ScoreRecord(ReqSkill, 70 * Scale)>>,
      <<ScoreRecord(ReqDegree, 1 * Scale), ScoreRecord(ReqQuoted, 0),
        ScoreRecord(ReqSkill, 50 * Scale)>>,
      <<ScoreRecord(ReqQuoted, 1 * Scale), ScoreRecord(ReqDegree, 1 * Scale)>> }

ResultSets ==
    UNION { [names -> RecordLists] : names \in SUBSET {"a.pdf", "b.pdf"} }

\* the slider (0 to 100 in steps of 5), the checkbox and the selection
FilterChoices ==
    [min_score : {0, 70, 75, 90},
     must_meet_all_boolean : BOOLEAN,
     selected_requirements : { <<>>, <<ReqSkill.text>>, <<ReqDegree.text>>,
                               <<ReqDegree.text, ReqQuoted.text>> }]

InitFilter ==
    /\ PureStart
    /\ \E all_results \in ResultSets, filter_params \in FilterChoices :
          fn = [name |-> "results", all_results |-> all_results,
                filter_params |-> filter_params,
                filtered |-> [exc |-> "none", filtered_results |-> EmptyDict]]

ApplyFilters ==
    /\ fn.name = "results"
    /\ fn' = [fn EXCEPT !.name = "apply_filters",
                        !.filtered = apply_filters(fn.all_results, fn.filter_params)]
    /\ UNCHANGED SessionVars

SpecFilter == InitFilter /\ [][ApplyFilters]_vars

-----------------------------------------------------------------------------
(* calculate_weighted_score and apply_filters on records whose priority may
   be a label that weight_map does not hold *)

LabelledRecords ==
    { [requirement |-> ReqDegree.text, score |-> 1 * Scale, priority |-> "Medium",
       type |-> "boolean"],
      [requirement |-> ReqSkill.text, score |-> 85 * Scale, priority |-> "High",
       type |-> "score"],
      [requirement |-> ReqSkill.text, score |-> 85 * Scale, priority |-> "Critical",
       type |-> "score"],
      [requirement |-> ReqDegree.text, score |-> 1 * Scale, priority |-> "high",
       type |-> "boolean"] }

LabelledLists == ListsUpTo(LabelledRecords, MaxRecords)

LabelledResults ==
    UNION { [names -> {l \in LabelledLists : Len(l) = 2}] :
               names \in SUBSET {"a.pdf", "b.pdf"} }

LabelledFilters ==
    [min_score : {0, 90},
     must_meet_all_boolean : BOOLEAN,
     selected_requirements : { <<>>, <<ReqSkill.text>> }]

InitPriority ==
    /\ PureStart
    /\ \/ \E scores \in LabelledLists :
             fn = [name |-> "scores", scores |-> scores,
                   composite |-> [exc |-> "none", value |-> DoubleZero]]
       \/ \E all_results \in LabelledResults, filter_params \in LabelledFilters :
             fn = [name |-> "results", all_results |-> all_results,
                   filter_params |-> filter_params,
                   filtered |-> [exc |-> "none", filtered_results |-> EmptyDict]]

NextPriority == Aggregate \/ ApplyFilters

SpecPriority == InitPriority /\ [][NextPriority]_vars

-----------------------------------------------------------------------------
(* calculate_weighted_score on records at and near the ends of their range *)

\* float("99.99999999999999"), the double next below 100.0: 100 - 2^-46
BelowHundred == [m |-> <<Base - 1, Base - 1, Base - 1, 199>>, e |-> -46]

\* the last record holds its double in the field float; its field score is
\* the nearest count of hundredths and is not read
RangeRecords ==
    { [requirement |-> ReqSkill.text, score |-> 100 * Scale, priority |-> "High",
       type |-> "score"],
      [requirement |-> ReqSkill.text, score |-> 0, priority |-> "Low",
       type |-> "score"],
      [requirement |-> ReqSkill.text, score |-> 1, priority |-> "Low",
       type |-> "score"],
      [requirement |-> ReqDegree.text, score |-> 1 * Scale, priority |-> "Medium",
       type |-> "boolean"],
      [requirement |-> ReqDegree.text, score |-> 0, priority |-> "High",
       type |-> "boolean"],
      [requirement |-> ReqSkill.text, score |-> 100 * Scale, float |-> BelowHundred,
       priority |-> "Low", type |-> "score"] }

InitRange ==
    /\ PureStart
    /\ \E scores \in ListsUpTo(RangeRecords, MaxRecords) :
          fn = [name |-> "scores", scores |-> scores,
                composite |-> [exc |-> "none", value |-> DoubleZero]]

SpecRange == InitRange /\ [][Aggregate]_vars

-----------------------------------------------------------------------------
(* app.py: the risk assessment of the audit *)

_assess_candidate_risk(scores) ==
    LET IsLow(score) == FLess(ScoreFloat(score), FromInt(40))
        IsFailure(score) ==
            score.type = "boolean" /\ ScoreFloat(score) = DoubleZero
        low_score_requirements ==
            Cardinality({i \in 1..Len(scores) : IsLow(scores[i])})
        boolean_failures ==
            Cardinality({i \in 1..Len(scores) : IsFailure(scores[i])})
    IN  [low_score_requirements |-> low_score_requirements,
         boolean_failures |-> boolean_failures,
         overall_risk_level |->
            IF low_score_requirements > 2 THEN "High"
            ELSE IF boolean_failures > 1 THEN "High"
            ELSE IF low_score_requirements > 0 THEN "Medium"
            ELSE "Low"]

RiskRecords ==
    { [requirement |-> ReqDegree.text, score |-> 1 * Scale, priority |-> "Medium",
       type |-> "boolean"],
      [requirement |-> ReqDegree.text, score |-> 0, priority |-> "Medium",
       type |-> "boolean"],
      [requirement |-> ReqSkill.text, score |-> 85 * Scale, priority |-> "High",
       type |-> "score"],
      [requirement |-> ReqSkill.text, score |-> 40 * Scale, priority |-> "High",
       type |-> "score"],
      [requirement |-> ReqSkill.text, score |-> 3999, priority |-> "High",
       type |-> "score"] }

InitRisk ==
    /\ PureStart
    /\ \E scores \in ListsUpTo(RiskRecords, MaxRecords) :
          fn = [name |-> "candidate", scores |-> scores,
                risk |-> [low_score_requirements |-> 0, boolean_failures |-> 0,
                          overall_risk_level |-> "Medium"]]

AssessRisk ==
    /\ fn.name = "candidate"
    /\ fn' = [fn EXCEPT !.name = "_assess_candidate_risk",
                        !.risk = _assess_candidate_risk(fn.scores)]
    /\ UNCHANGED SessionVars

SpecRisk == InitRisk /\ [][AssessRisk]_vars

-----------------------------------------------------------------------------
(* modules/results_display.py and modules/filters.py: the buttons under the
   results of a completed analysis *)

\* display_results is drawing the results of the session
ResultsShown ==
    /\ run = Idle
    /\ "absent" \notin DOMAIN session_results
    /\ DOMAIN session_results # {}

\* the values the filter widgets can hold: the slider, the checkbox, and all
\* the requirements or none ("Select All Requirements")
WidgetValues ==
    [min_score : {0, 70},
     must_meet_all_boolean : BOOLEAN,
     selected_requirements :
        {<<>>, [i \in 1..Len(requirements) |-> requirements[i].text]}]

BatchUnchanged ==
    UNCHANGED <<requirements, uploaded_files, runs_started, run, handed, last,
                returned, fn, audited>>

\* "Apply Filters" is clicked
ApplyFiltersClick ==
    /\ ResultsShown
    /\ \E filter_params \in WidgetValues :
          LET filtered == apply_filters(session_results, filter_params)
          IN  /\ filter_state' = filter_params
              /\ IF filtered.exc = "none"
                 THEN /\ filtered_results' = filtered.filtered_results
                      /\ filters_applied' = TRUE
                 ELSE UNCHANGED <<filtered_results, filters_applied>>
    /\ UNCHANGED <<score_cache, session_results, in_progress, current_results,
                   processed_files, tracker>>
    /\ BatchUnchanged

\* "Reset Filters" is clicked
ResetFiltersClick ==
    /\ ResultsShown
    /\ filter_state' = NoFilter
    /\ filters_applied' = FALSE
    /\ UNCHANGED <<score_cache, session_results, filtered_results, in_progress,
                   current_results, processed_files, tracker>>
    /\ BatchUnchanged

\* "Start New Analysis" forgetting the scores with the results
StartNewAnalysisClick_forgetful ==
    /\ ResultsShown
    /\ \E filter_params \in WidgetValues : filter_state' = filter_params
    /\ session_results' = NoResults
    /\ filtered_results' = NoResults
    /\ filters_applied' = FALSE
    /\ in_progress' = FALSE
    /\ processed_files' = EmptyDict
    /\ current_results' = EmptyDict
    /\ tracker' = NoTracker
    /\ score_cache' = EmptyDict
    /\ BatchUnchanged

\* "Start New Analysis" is clicked
StartNewAnalysisClick ==
    /\ ResultsShown
    /\ \E filter_params \in WidgetValues : filter_state' = filter_params
    /\ session_results' = NoResults
    /\ filtered_results' = NoResults
    /\ filters_applied' = FALSE
    /\ in_progress' = FALSE
    /\ processed_files' = EmptyDict
    /\ current_results' = EmptyDict
    /\ tracker' = NoTracker
    /\ UNCHANGED score_cache
    /\ BatchUnchanged

InitSession ==
    /\ SessionStart
    /\ fn = NoFn
    /\ requirements = <<ReqSkill>>
    /\ uploaded_files = <<Pdf(DocZ)>>

NextSession ==
    \/ Next
    \/ ApplyFiltersClick
    \/ ResetFiltersClick
    \/ StartNewAnalysisClick

SpecSession == InitSession /\ [][NextSession]_vars

-----------------------------------------------------------------------------
(* The tracker of a batch: its operations complete one by one and the
   remaining time is asked for at any moment. *)

MaxFiles == 3

MaxRequirements == 2

MaxElapsed == 2

\* time.time() is the wall clock: it may not have advanced since the tracker
\* was created, and it may have been set back
ElapsedTimes == (-1)..MaxElapsed

InitTracker ==
    /\ score_cache = EmptyDict
    /\ requirements = <<>>
    /\ uploaded_files = <<>>
    /\ in_progress = TRUE
    /\ current_results = EmptyDict
    /\ processed_files = EmptyDict
    /\ session_results = NoResults
    /\ run = Idle
    /\ runs_started = 0
    /\ handed = <<>>
    /\ last = NoCall
    /\ returned = EmptyDict
    /\ fn = NoFn
    /\ filter_state = NoFilter
    /\ filters_applied = FALSE
    /\ filtered_results = NoResults
    /\ audited = <<>>
    /\ \E total_files \in 0..MaxFiles, total_requirements \in 0..MaxRequirements :
          tracker = BatchProcessingTracker(total_files, total_requirements)

TrackerUnchanged ==
    UNCHANGED <<score_cache, requirements, uploaded_files, in_progress,
                current_results, processed_files, session_results, run,
                runs_started, handed, last, returned, filter_state,
                filters_applied, filtered_results, audited>>

CompleteOperation ==
    /\ tracker.completed_operations < tracker.total_operations
    /\ tracker' = complete_requirement(tracker)
    /\ UNCHANGED fn
    /\ TrackerUnchanged

EstimateTime ==
    /\ \E elapsed \in ElapsedTimes :
          fn' = [name |-> "get_estimated_time_remaining", tracker |-> tracker,
                 elapsed |-> elapsed,
                 result |-> get_estimated_time_remaining(tracker, elapsed)]
    /\ UNCHANGED tracker
    /\ TrackerUnchanged

NextTracker == CompleteOperation \/ EstimateTime

SpecTracker == InitTracker /\ [][NextTracker]_vars

-----------------------------------------------------------------------------
(* Properties *)

\* the value the specification prescribes when no score can be read
PrescribedFallback(type) == IF type = "boolean" THEN 0 ELSE 50 * Scale

\* C1: once a scoring call for a fingerprint has returned, every later call
\* with the identical fingerprint returns the identical value and invokes no
\* model, whatever the oracle did on the first call.
C1_RepeatedCallIsCached ==
    last.again => (last.ret = last.first /\ last.called = <<>>)

\* C2: when process_files returns, the tracker has completed D*R operations,
\* D the documents of the expanded upload and R the requirements, also when
\* the extraction of some or all documents fails.
C2_AllOperationsCompleted ==
    run.pc = "returned" =>
        /\ tracker.completed_operations
              = count_total_files(uploaded_files) * Len(requirements)
        /\ tracker.completed_operations = tracker.total_operations

\* C3: a started batch run stops only completed: whenever no script run is
\* under way, in_progress is false and every document of the expanded upload
\* has been handed to process_single_file, under every option and for every
\* archive.
C3_RunStopsOnlyCompleted ==
    (run.pc = "idle" /\ runs_started > 0) =>
        /\ ~in_progress
        /\ Len(handed) = count_total_files(uploaded_files)

\* C4: in both scoring paths a reply without digits yields the fallback for
\* that call: 0 for a boolean requirement, 50 for a score requirement.
C4_NoDigitsGivesFallback ==
    /\ (last.fn = "single" /\ ~last.hit /\ last.outs[1] \in NoDigitReplies)
          => last.ret = PrescribedFallback(last.requirement.type)
    /\ (last.fn = "voting" /\ ~last.hit)
          => \A i \in 1..Len(Models) :
                last.outs[i] \in NoDigitReplies
                   => last.results[i] = PrescribedFallback(last.requirement.type)

\* C5: a call that misses the cache has stored its result under its
\* fingerprint when it returns, parsed or fallback; in voting this holds for
\* the fingerprint of every model the call invoked as well.
C5_MissStoresResult ==
    /\ (last.fn # "none" /\ ~last.hit)
          => /\ last.key \in DOMAIN score_cache
             /\ score_cache[last.key] = last.ret
    /\ (last.fn = "voting" /\ ~last.hit)
          => \A i \in 1..Len(Models) :
                InSeq(Models[i], last.called)
                   => LET k == get_cache_key(last.requirement, last.cv_text, Models[i])
                      IN  k \in DOMAIN score_cache /\ score_cache[k] = last.results[i]

\* a step of the requirement loop in which a model the call invoked raised
ScoredOnError ==
    /\ run.pc = "scoring"
    /\ run'.pc = "scoring"
    /\ run'.j = run.j + 1
    /\ InSeq(OracleError, last'.outs)

\* the value the call of this step returns when each raised error is replaced
\* by the reply n
ValueOnReply(n) ==
    LET outs == [i \in 1..Len(last'.outs) |->
                    IF last'.outs[i] = OracleError THEN n ELSE last'.outs[i]]
    IN  IF last'.fn = "single"
        THEN get_openai_score(score_cache, last'.requirement, last'.cv_text,
                              outs[1]).ret
        ELSE get_openai_score_with_voting(score_cache, last'.requirement,
                                          last'.cv_text, outs).ret

\* C6: an error raised by the oracle does not leave the scoring call: the call
\* returns what it would return for a reply without digits, a record is added
\* and the loop goes on to the next requirement of the same document.
C6_OracleErrorIsAbsorbed ==
    [][ScoredOnError =>
          /\ run'.filename = run.filename
          /\ Len(run'.scores) = Len(run.scores) + 1
          /\ \A n \in NoDigitReplies : last'.ret = ValueOnReply(n)]_vars

InRange(record) ==
    IF record.type = "boolean" THEN record.score \in {0, 1 * Scale}
    ELSE 0 <= record.score /\ record.score <= 100 * Scale

AllInRange(results) ==
    \A f \in DOMAIN results : \A i \in 1..Len(results[f]) : InRange(results[f][i])

\* C7: every ScoreRecord of a batch run has its score in {0,1} when boolean and
\* in [0,100] when score, in both modes and whether the value came from the
\* oracle, the cache or a fallback.
C7_RecordsInRange ==
    /\ run.pc = "scoring" => \A i \in 1..Len(run.scores) : InRange(run.scores[i])
    /\ AllInRange(current_results)
    /\ session_results # NoResults => AllInRange(session_results)

RECURSIVE Tally(_, _)
\* how many of the votes equal x
Tally(votes, x) ==
    IF votes = <<>> THEN 0
    ELSE (IF Head(votes) = x THEN 1 ELSE 0) + Tally(Tail(votes), x)

\* C8: boolean voting returns 1 exactly when strictly more votes equal 1 than
\* equal 0 and 0 otherwise; [1,1,0] gives 1, [0,0,1] gives 0, [1,0] gives 0.
C8_BooleanMajority ==
    (fn.name = "final_score" /\ fn.type = "boolean") =>
        /\ fn.final \in {0, 1 * Scale}
        /\ fn.final = 1 * Scale
              <=> Tally(fn.results, 1 * Scale) > Tally(fn.results, 0)
        /\ fn.results = <<1 * Scale, 1 * Scale, 0>> => fn.final = 1 * Scale
        /\ fn.results = <<0, 0, 1 * Scale>> => fn.final = 0
        /\ fn.results = <<1 * Scale, 0>> => fn.final = 0

C8_Witness ==
    /\ fn.name = "final_score"
    /\ fn.type = "boolean"
    /\ fn.results = <<1 * Scale, 0>>
    /\ fn.final = 0

\* the k-th smallest of the votes
Kth(votes, k) ==
    CHOOSE v \in {votes[i] : i \in 1..Len(votes)} :
        /\ Cardinality({i \in 1..Len(votes) : votes[i] < v}) < k
        /\ k <= Cardinality({i \in 1..Len(votes) : votes[i] <= v})

\* C9: score voting returns the median of the votes: the middle of the sorted
\* votes for an odd count, the average of the two middle ones for an even
\* count, in whatever order the votes came; [40,60,80] gives 60, [40,60] 50.
C9_ScoreMedian ==
    (fn.name = "final_score" /\ fn.type = "score") =>
        LET n == Len(fn.results)
        IN  /\ IF n % 2 = 1
               THEN fn.final = Kth(fn.results, (n + 1) \div 2)
               ELSE 2 * fn.final
                       = Kth(fn.results, n \div 2) + Kth(fn.results, n \div 2 + 1)
            /\ \A p \in Permutations(1..n) :
                  final_score("score", [i \in 1..n |-> fn.results[p[i]]]) = fn.final
            /\ fn.results = <<40 * Scale, 60 * Scale, 80 * Scale>>
                  => fn.final = 60 * Scale
            /\ fn.results = <<40 * Scale, 60 * Scale>> => fn.final = 50 * Scale

C9_Witness ==
    /\ fn.name = "final_score"
    /\ fn.type = "score"
    /\ fn.results = <<80 * Scale, 40 * Scale, 60 * Scale>>
    /\ fn.final = 60 * Scale

PrescribedWeight(priority) ==
    CASE priority = "Low" -> 1
      [] priority = "Medium" -> 2
      [] priority = "High" -> 3

PrescribedValue(record) ==
    IF record.type = "boolean" THEN record.score * 100 ELSE record.score

RECURSIVE WeightedTotal(_)
WeightedTotal(records) ==
    IF records = <<>> THEN 0
    ELSE PrescribedValue(Head(records)) * PrescribedWeight(Head(records).priority)
         + WeightedTotal(Tail(records))

RECURSIVE WeightTotal(_)
WeightTotal(records) ==
    IF records = <<>> THEN 0
    ELSE PrescribedWeight(Head(records).priority) + WeightTotal(Tail(records))

ExampleRecords ==
    << [requirement |-> ReqDegree.text, score |-> 1 * Scale, priority |-> "High",
        type |-> "boolean"],
       [requirement |-> ReqSkill.text, score |-> 50 * Scale, priority |-> "Low",
        type |-> "score"] >>

\* the natural numbers a and b differ by at most b / 2^50
Close(a, b) ==
    /\ ~BLess(BAdd(BShl(b, 50), b), BShl(a, 50))
    /\ ~BLess(BAdd(BShl(a, 50), b), BShl(b, 50))

\* the double x is the quotient num / den of two integers up to the rounding
\* of the float operations (a relative error of 2^-50)
IsQuotient(x, num, den) ==
    LET s == IF x.e < 0 THEN 0 - x.e ELSE 0
    IN  Close(BShl(BMulSmall(x.m, den), x.e + s), BShl(BFromInt(num), s))

\* C10: for a non-empty list of records with priorities Low, Medium or High the
\* composite is sum(value * weight) / sum(weight), weights 1, 2 and 3, value the
\* score times 100 for a boolean record (the quotient as the float arithmetic
\* gives it); the example gives 87.5.
C10_WeightedMean ==
    (fn.name = "calculate_weighted_score" /\ fn.scores # <<>>) =>
        /\ fn.composite.exc = "none"
        /\ IsQuotient(fn.composite.value, WeightedTotal(fn.scores),
                      Scale * WeightTotal(fn.scores))
        /\ fn.scores = ExampleRecords
              => fn.composite.value = [m |-> BFromInt(175), e |-> -1]

C10_Witness ==
    /\ fn.name = "calculate_weighted_score"
    /\ fn.scores = ExampleRecords
    /\ fn.composite = [exc |-> "none", value |-> [m |-> BFromInt(175), e |-> -1]]

\* the records in the order p
Reordered(records, p) == [i \in 1..Len(records) |-> records[p[i]]]

\* C11: the composite is the same for every reordering of the records.
C11_PermutationInvariant ==
    fn.name = "calculate_weighted_score" =>
        \A p \in Permutations(1..Len(fn.scores)) :
            calculate_weighted_score(Reordered(fn.scores, p)) = fn.composite

\* C12: the composite of an empty list of records (weight sum 0) is 0, and no
\* error is raised.
C12_EmptyIsZero ==
    (fn.name = "calculate_weighted_score" /\ fn.scores = <<>>) =>
        fn.composite = [exc |-> "none", value |-> FromInt(0)]

C12_Witness ==
    /\ fn.name = "calculate_weighted_score"
    /\ fn.scores = <<>>
    /\ fn.composite.exc = "none"
    /\ fn.composite.value = DoubleZero

\* C13: the remaining time is computed without a division by zero in every
\* state of the tracker: the unknown marker while nothing has completed, and
\* afterwards the quotient remaining / (completed / elapsed), also when no time
\* has elapsed since the start.
C13_NoDivisionByZero ==
    (fn.name = "get_estimated_time_remaining" /\ fn.elapsed >= 0) =>
        /\ fn.result.exc = "none"
        /\ fn.tracker.completed_operations = 0
              => fn.result.text = "Calculating..."
        /\ fn.tracker.completed_operations > 0
              => /\ fn.result.text = "timedelta"
                 /\ fn.result.remaining_operations
                       = fn.tracker.total_operations - fn.tracker.completed_operations
                 /\ fn.result.completed_operations = fn.tracker.completed_operations
                 /\ fn.result.elapsed = fn.elapsed

RECURSIVE Expanded(_)
\* the documents of an upload: the PDF members of its archives and its PDFs,
\* in the order the batch takes them
Expanded(files) ==
    IF files = <<>> THEN <<>>
    ELSE (CASE Head(files).type = "application/zip" -> pdf_files(Head(files))
            [] Head(files).type = "application/pdf" -> Head(files).members
            [] OTHER -> <<>>)
         \o Expanded(Tail(files))

\* the document cannot be read: its text is empty, or opening or reading it
\* raises
Unreadable(doc) == doc.kind # "text" \/ doc.text = <<>>

\* C14: a document whose extraction yields the empty string or raises is absent
\* from the results, and every document after it is still processed.
C14_FailureIsIsolated ==
    \A i \in 1..Len(Expanded(uploaded_files)) :
        LET docs == Expanded(uploaded_files)
        IN  Unreadable(docs[i]) =>
               /\ docs[i].name \notin DOMAIN current_results
               /\ session_results # NoResults
                     => docs[i].name \notin DOMAIN session_results
               /\ run.pc # "idle" => docs[i].name \notin DOMAIN run.all_results
               /\ (run.pc = "idle" /\ runs_started > 0)
                     => \A j \in (i + 1)..Len(docs) : InSeq(docs[j].name, handed)

\* one record for each requirement of the session, in the order of declaration
OnePerRequirement(records) ==
    /\ Len(records) = Len(requirements)
    /\ \A j \in 1..Len(records) :
          /\ records[j].requirement = requirements[j].text
          /\ records[j].priority = requirements[j].weight
          /\ records[j].type = requirements[j].type

\* C18: in the results a batch run returns, every document maps to exactly one
\* ScoreRecord per requirement of the session, in declaration order, each with
\* the text, the weight (as priority) and the type of its requirement.
C18_OneRecordPerRequirement ==
    /\ run.pc = "returned"
          => \A f \in DOMAIN run.all_results : OnePerRequirement(run.all_results[f])
    /\ session_results # NoResults
          => \A f \in DOMAIN session_results : OnePerRequirement(session_results[f])

C18_Witness ==
    /\ run.pc = "returned"
    /\ Len(requirements) = 2
    /\ DOMAIN run.all_results = {"q.pdf", "z.pdf"}

\* a step of a batch run that appends a ScoreRecord: one (document,
\* requirement) unit has obtained its score
UnitScored ==
    /\ run.pc = "scoring"
    /\ run'.pc = "scoring"
    /\ run'.filename = run.filename
    /\ run'.j = run.j + 1
    /\ run'.scores = Append(run.scores, ScoreRecord(requirements[run.j], last'.ret))

\* C19: during a batch run completed_operations changes only by +1 and only in
\* a step that scores a unit and appends its record, and every such step
\* changes it.
C19_CountsScoredUnits ==
    [][run.pc # "idle" =>
          /\ tracker' # tracker
                => /\ UnitScored
                   /\ tracker' = [tracker EXCEPT !.completed_operations = @ + 1]
          /\ UnitScored => tracker'.completed_operations
                              = tracker.completed_operations + 1]_vars

\* the second document of a run scored on both of its requirements
C19_Witness ==
    /\ run.pc = "scoring"
    /\ Len(run.scores) = 2
    /\ tracker.completed_operations = 4


Filtered == fn.name = "apply_filters" /\ fn.filtered.exc = "none"

Composite(scores) == calculate_weighted_score(scores).value

\* C15: with must_meet_all_boolean false and nothing selected, apply_filters
\* keeps a document exactly when the composite of its full sequence is not
\* below min_score; a composite equal to min_score is kept.
C15_DropsBelowMinimum ==
    (/\ fn.name = "apply_filters"
     /\ ~fn.filter_params.must_meet_all_boolean
     /\ fn.filter_params.selected_requirements = <<>>)
    => /\ fn.filtered.exc = "none"
       /\ \A cv_name \in DOMAIN fn.all_results :
             cv_name \in DOMAIN fn.filtered.filtered_results
                <=> ~FLess(Composite(fn.all_results[cv_name]),
                           FromInt(fn.filter_params.min_score))

\* a composite of exactly 70 kept at min_score 70 beside one of 60 dropped
C15_Witness ==
    /\ Filtered
    /\ ~fn.filter_params.must_meet_all_boolean
    /\ fn.filter_params.selected_requirements = <<>>
    /\ fn.filter_params.min_score = 70
    /\ DOMAIN fn.all_results = {"a.pdf", "b.pdf"}
    /\ Composite(fn.all_results["a.pdf"]) = FromInt(70)
    /\ Composite(fn.all_results["b.pdf"]) = FromInt(60)
    /\ DOMAIN fn.filtered.filtered_results = {"a.pdf"}

AllBooleanMet(scores) ==
    \A i \in 1..Len(scores) :
        scores[i].type = "boolean" => scores[i].score = 1 * Scale

NoBoolean(scores) == \A i \in 1..Len(scores) : scores[i].type # "boolean"

\* what the same call keeps with must_meet_all_boolean switched off
WithoutMustMeet ==
    apply_filters(fn.all_results,
                  [fn.filter_params EXCEPT !.must_meet_all_boolean = FALSE])

\* C16: with must_meet_all_boolean set, a document is kept only if every
\* boolean record of its full sequence has score 1, the records outside the
\* selection included; the step removes no other document, so one without
\* boolean records passes it.
C16_MustMeetAllBoolean ==
    (fn.name = "apply_filters" /\ fn.filter_params.must_meet_all_boolean)
    => /\ fn.filtered.exc = "none"
       /\ \A cv_name \in DOMAIN fn.all_results :
             cv_name \in DOMAIN fn.filtered.filtered_results
                <=> /\ AllBooleanMet(fn.all_results[cv_name])
                    /\ cv_name \in DOMAIN WithoutMustMeet.filtered_results

\* an unmet boolean record outside the selection drops its document, and a
\* document without boolean records is kept
C16_Witness ==
    /\ Filtered
    /\ fn.filter_params.must_meet_all_boolean
    /\ fn.filter_params.selected_requirements = <<ReqSkill.text>>
    /\ DOMAIN fn.all_results = {"a.pdf", "b.pdf"}
    /\ ~AllBooleanMet(fn.all_results["a.pdf"])
    /\ NoBoolean(fn.all_results["b.pdf"])
    /\ DOMAIN fn.filtered.filtered_results = {"b.pdf"}

\* the records of scores whose requirement is selected, in their order
RECURSIVE Projection(_, _)
Projection(scores, selected) ==
    IF scores = <<>> THEN <<>>
    ELSE IF \E i \in 1..Len(selected) : selected[i] = Head(scores).requirement
         THEN <<Head(scores)>> \o Projection(Tail(scores), selected)
         ELSE Projection(Tail(scores), selected)

\* what the same call keeps with nothing selected
WithoutSelection ==
    apply_filters(fn.all_results,
                  [fn.filter_params EXCEPT !.selected_requirements = <<>>])

\* C17: with requirements selected, a kept document maps to the projection of
\* its sequence onto the selection, in the original order, and a document
\* whose projection is empty is dropped; with nothing selected a kept
\* document maps to its full sequence.
C17_Projection ==
    fn.name = "apply_filters"
    => LET selected == fn.filter_params.selected_requirements
           out      == fn.filtered.filtered_results
       IN  /\ fn.filtered.exc = "none"
           /\ \A cv_name \in DOMAIN out :
                 out[cv_name] = IF selected = <<>>
                                THEN fn.all_results[cv_name]
                                ELSE Projection(fn.all_results[cv_name], selected)
           /\ selected # <<>>
                 => \A cv_name \in DOMAIN fn.all_results :
                       cv_name \in DOMAIN out
                          <=> /\ cv_name \in DOMAIN WithoutSelection.filtered_results
                              /\ Projection(fn.all_results[cv_name], selected) # <<>>

\* two of three records kept in the order of the sequence, which is not the
\* order of the selection, beside a document with nothing selected in it
C17_Witness ==
    /\ Filtered
    /\ fn.filter_params.selected_requirements = <<ReqDegree.text, ReqQuoted.text>>
    /\ fn.filter_params.min_score = 0
    /\ DOMAIN fn.all_results = {"a.pdf", "b.pdf"}
    /\ fn.all_results["a.pdf"] =
          <<ScoreRecord(ReqQuoted, 1 * Scale), ScoreRecord(ReqDegree, 1 * Scale)>>
    /\ fn.all_results["b.pdf"] = <<ScoreRecord(ReqSkill, 70 * Scale)>>
    /\ fn.filtered.filtered_results =
          [cv_name \in {"a.pdf"} |-> fn.all_results["a.pdf"]]


\* C20: no step removes a fingerprint from the score cache or changes the
\* value stored under one: not a single-model call, a voting call, a new
\* batch run, applying or resetting the filters, or "Start New Analysis".
C20_CacheOnlyGrows ==
    [][\A key \in DOMAIN score_cache :
          /\ key \in DOMAIN score_cache'
          /\ score_cache'[key] = score_cache[key]]_vars

\* a second batch run under way after "Start New Analysis", the scores of the
\* first run still cached
C20_Witness ==
    /\ runs_started = 2
    /\ run.pc = "scoring"
    /\ "absent" \in DOMAIN session_results
    /\ get_cache_key(requirements[1], run.cv_text, DefaultModel) \in DOMAIN score_cache
    /\ get_cache_key(requirements[1], run.cv_text, "voting") \in DOMAIN score_cache
    /\ run.j = 1

\* the configured models whose own fingerprint is absent from a cache
Uncached(cache, requirement, cv_text) ==
    LET Absent(model) == get_cache_key(requirement, cv_text, model) \notin DOMAIN cache
    IN  SelectSeq(Models, Absent)

\* C21: a voting call whose combined fingerprint is cached asks no model;
\* otherwise it asks exactly the configured models whose own fingerprint is
\* not cached, at most three, and on return the combined fingerprint holds
\* the reduced value, which is the value returned.
C21_VotingCalls ==
    [][(last' # last /\ last'.fn = "voting")
       => LET requirement == last'.requirement
              cv_text     == last'.cv_text
              voting_key  == get_cache_key(requirement, cv_text, "voting")
          IN  /\ voting_key \in DOMAIN score_cache => last'.called = <<>>
              /\ voting_key \notin DOMAIN score_cache
                    => /\ last'.called = Uncached(score_cache, requirement, cv_text)
                       /\ Len(last'.results) = Len(Models)
                       /\ last'.ret = final_score(requirement.type, last'.results)
              /\ Len(last'.called) <= 3
              /\ voting_key \in DOMAIN score_cache'
              /\ score_cache'[voting_key] = last'.ret]_vars

\* a voting call that found the vote of gpt-4o-mini cached and asked the
\* other two models
C21_Witness ==
    /\ last.fn = "voting"
    /\ ~last.hit
    /\ last.called = <<"gpt-4o", "gpt-4o-2024-11-20">>
    /\ Len(last.results) = 3
    /\ score_cache[last.key] = last.ret

\* a record whose priority is not one of Low, Medium, High
HasUnknownPriority(scores) ==
    \E i \in 1..Len(scores) : scores[i].priority \notin {"Low", "Medium", "High"}

\* C22: calculate_weighted_score ends in an error for a sequence holding a
\* record whose priority is not Low, Medium or High, and so does apply_filters
\* for a result set holding such a sequence; neither returns a value for it.
C22_UnknownPriorityFails ==
    /\ (fn.name = "calculate_weighted_score" /\ HasUnknownPriority(fn.scores))
          => fn.composite.exc = "KeyError"
    /\ (/\ fn.name = "apply_filters"
        /\ \E cv_name \in DOMAIN fn.all_results :
              HasUnknownPriority(fn.all_results[cv_name]))
          => fn.filtered.exc = "KeyError"

\* apply_filters failing on two documents of which only the second holds a
\* record of unknown priority, and only as its last record
C22_Witness ==
    /\ fn.name = "apply_filters"
    /\ DOMAIN fn.all_results = {"a.pdf", "b.pdf"}
    /\ ~HasUnknownPriority(fn.all_results["a.pdf"])
    /\ fn.all_results["b.pdf"][1].priority = "High"
    /\ fn.all_results["b.pdf"][2].priority = "Critical"
    /\ fn.filtered.exc = "KeyError"

\* the documents process_single_file has returned from in the run under way
FinishedSoFar ==
    IF run.pc = "scoring" THEN SubSeq(handed, 1, Len(handed) - 1) ELSE handed

\* the names of the finished documents that could be read
FinishedSuccessfully ==
    {doc.name : doc \in {d \in {Expanded(uploaded_files)[i] :
                                   i \in 1..Len(Expanded(uploaded_files))} :
                            InSeq(d.name, FinishedSoFar) /\ ~Unreadable(d)}}

\* C23: at every point of a batch run current_results holds exactly the
\* documents that have finished successfully so far, each with its complete
\* record sequence (so a document is there before the next one starts), as
\* the result set under construction does; when the run has completed,
\* current_results equals the result set returned.
C23_PartialResultsVisible ==
    /\ run.pc # "idle"
          => /\ DOMAIN current_results = FinishedSuccessfully
             /\ \A f \in DOMAIN current_results : OnePerRequirement(current_results[f])
             /\ current_results = run.all_results
    /\ (run.pc = "idle" /\ runs_started > 0 /\ ~in_progress)
          => current_results = session_results

\* the first document is visible while the third is being scored, the second
\* having yielded no text
C23_Witness ==
    /\ run.pc = "scoring"
    /\ handed = <<"q.pdf", "scan.pdf", "z.pdf">>
    /\ Len(run.scores) = 1
    /\ DOMAIN current_results = {"q.pdf"}

\* C24: a failure of the audit record call does not fail the scoring path:
\* whatever the audit does, the step that follows the return of process_files
\* stores the result set as the session's results and as current_results and
\* sets in_progress to false.
C24_AuditNeverFailsScoring ==
    [][run.pc = "returned"
       => /\ session_results' = run.all_results
          /\ current_results' = run.all_results
          /\ in_progress' = FALSE
          /\ run'.pc = "idle"]_vars

\* a run of two scored documents completed although the record call failed
\* for the first of them
C24_Witness ==
    /\ run.pc = "idle"
    /\ runs_started = 1
    /\ ~in_progress
    /\ "absent" \notin DOMAIN session_results
    /\ DOMAIN session_results = {"q.pdf", "z.pdf"}
    /\ audited = <<>>

\* the tracker of a run counts within its total, which is the product of the
\* documents of the upload and the requirements of the session, and no more
\* documents are handed to process_single_file than it counts
WithinTotal ==
    runs_started > 0
    => /\ 0 <= tracker.completed_operations
       /\ tracker.completed_operations <= tracker.total_operations
       /\ tracker.total_operations = tracker.total_files * tracker.total_requirements
       /\ tracker.total_files = Len(Expanded(uploaded_files))
       /\ tracker.total_requirements = Len(requirements)
       /\ Len(handed) <= tracker.total_files
       /\ run.pc = "returned" => Len(handed) = tracker.total_files

\* C25: in every state of a batch run 0 <= completed_operations <=
\* total_operations, where total_operations = total_files * total_requirements
\* does not change after the construction of the tracker and total_files,
\* the PDF uploads plus the archive members ending in .pdf, is the number of
\* documents process_files has handed to process_single_file when it returns.
C25_CompletedWithinTotal ==
    [][/\ WithinTotal
       /\ WithinTotal'
       /\ (run.pc # "idle" /\ run'.pc # "idle")
             => /\ tracker'.total_files = tracker.total_files
                /\ tracker'.total_requirements = tracker.total_requirements
                /\ tracker'.total_operations = tracker.total_operations]_vars

\* an archive with a member that is not a PDF and one named in capitals:
\* three documents counted, three handed over, four of six operations done
C25_Witness ==
    /\ run.pc = "returned"
    /\ handed = <<"torn.pdf", "z.pdf", "Z2.PDF">>
    /\ tracker.total_files = 3
    /\ tracker.total_operations = 6
    /\ tracker.completed_operations = 4

\* C26: the fingerprint holds the first 1000 characters of the document and
\* the prompt its first 8000: when a document has been scored and the next
\* call scores, against the same requirement and in the same mode, another
\* document with the same first 1000 characters, that call has the same
\* fingerprint, invokes no model and returns the value of the first call.
C26_PrefixDecidesScore ==
    [][(/\ last.fn # "none"
        /\ last'.fn = last.fn
        /\ last'.requirement = last.requirement
        /\ last'.cv_text # last.cv_text
        /\ Slice(last'.cv_text, KeyPrefixLen) = Slice(last.cv_text, KeyPrefixLen))
       => /\ last'.key = last.key
          /\ last'.called = <<>>
          /\ last'.ret = last.ret]_vars

\* the place of gpt-4o-mini in the list of the voting models
MiniVote == CHOOSE i \in 1..Len(Models) : Models[i] = DefaultModel

\* C27: the two modes share the fingerprint of gpt-4o-mini.  A voting call
\* that finds it cached (and not the combined one) takes the cached value as
\* the vote of gpt-4o-mini without invoking that model, and a single-model
\* call that finds it cached returns the cached value without invoking any,
\* whichever mode stored it.
C27_ModesShareMiniFingerprint ==
    [][LET requirement == last'.requirement
           cv_text     == last'.cv_text
           mini_key    == get_cache_key(requirement, cv_text, DefaultModel)
           voting_key  == get_cache_key(requirement, cv_text, "voting")
       IN  (last' # last /\ mini_key \in DOMAIN score_cache)
           => /\ (last'.fn = "voting" /\ voting_key \notin DOMAIN score_cache)
                    => /\ ~InSeq(DefaultModel, last'.called)
                       /\ last'.results[MiniVote] = score_cache[mini_key]
              /\ last'.fn = "single"
                    => /\ last'.called = <<>>
                       /\ last'.ret = score_cache[mini_key]]_vars

\* a single-model call served from the cache although no single-model call
\* had returned for its fingerprint: the value was stored by a voting call
C27_Witness ==
    /\ last.fn = "single"
    /\ last.hit
    /\ ~last.again
    /\ last.called = <<>>
    /\ get_cache_key(last.requirement, last.cv_text, "voting") \in DOMAIN score_cache

\* C28: apply_filters is idempotent: applied with the same parameters to what
\* it returned it returns the same again; in particular the composite of the
\* records the output holds for a document is not below min_score.
C28_FilterIsIdempotent ==
    Filtered
    => /\ apply_filters(fn.filtered.filtered_results, fn.filter_params)
             = [exc |-> "none", filtered_results |-> fn.filtered.filtered_results]
       /\ \A cv_name \in DOMAIN fn.filtered.filtered_results :
             ~FLess(Composite(fn.filtered.filtered_results[cv_name]),
                    FromInt(fn.filter_params.min_score))

\* the record holds the largest value of its type: 1 for boolean, 100 for score
AtMaximum(score) ==
    ScoreFloat(score) = IF score.type = "boolean" THEN FromInt(1) ELSE FromInt(100)

\* the range invariant of a record: boolean 0 or 1, score within [0, 100]
WithinRange(score) ==
    IF score.type = "boolean"
    THEN ScoreFloat(score) \in {DoubleZero, FromInt(1)}
    ELSE /\ ~FLess(ScoreFloat(score), DoubleZero)
         /\ ~FLess(FromInt(100), ScoreFloat(score))

\* C29: for records within their range and of valid priority the composite is
\* within [0, 100]; it is 100 only if every record is at its maximum and 0
\* only if every record is 0 (or there is none).
C29_CompositeInRange ==
    (/\ fn.name = "calculate_weighted_score"
     /\ \A i \in 1..Len(fn.scores) :
           WithinRange(fn.scores[i]) /\ fn.scores[i].priority \in DOMAIN weight_map)
    => /\ fn.composite.exc = "none"
       /\ ~FLess(fn.composite.value, DoubleZero)
       /\ ~FLess(FromInt(100), fn.composite.value)
       /\ fn.composite.value = FromInt(100)
             => \A i \in 1..Len(fn.scores) : AtMaximum(fn.scores[i])
       /\ fn.composite.value = DoubleZero
             => \A i \in 1..Len(fn.scores) : ScoreFloat(fn.scores[i]) = DoubleZero

\* the candidate meets every boolean requirement and scores at least 40 on
\* every score-type requirement
MeetsAll(scores) ==
    \A i \in 1..Len(scores) :
        IF scores[i].type = "boolean"
        THEN scores[i].score = 1 * Scale
        ELSE scores[i].score >= 40 * Scale

\* C30: _assess_candidate_risk returns an overall_risk_level of Low, Medium
\* or High, and Low for every candidate who meets all boolean requirements
\* and scores at least 40 on every score-type requirement, however many
\* boolean requirements there are.
C30_RiskLevel ==
    fn.name = "_assess_candidate_risk"
    => /\ fn.risk.overall_risk_level \in {"Low", "Medium", "High"}
       /\ MeetsAll(fn.scores) => fn.risk.overall_risk_level = "Low"

====
